---------------------------- MODULE Spec2Model ----------------------------
(***************************************************************************)
(* A model of TrustedASMPoliciesWorker.js: the iControl LX worker that     *)
(* replicates ASM policies between trusted devices.                        *)
(*                                                                         *)
(* The worker runs on one node.js event loop.  One action of this model is *)
(* one callback of the program (one macrotask), or one promise reaction    *)
(* that the callback left in the job queue: `micro` is that queue, and no  *)
(* new callback starts while it is not empty.  The devices (source and     *)
(* targets) are the environment: a remote call is served by the device in  *)
(* one step and its answer is delivered to the worker in a later one.      *)
(*                                                                         *)
(* Strings that the program concatenates or compares by prefix (hosts,     *)
(* ports, policy ids, registry keys) are sequences of one-character        *)
(* strings, so that `a:b:c` templates and startsWith are computed as the   *)
(* program computes them.  The empty sequence stands for null, undefined   *)
(* and the empty string (all falsy).                                       *)
(***************************************************************************)
EXTENDS Integers, Sequences, FiniteSets, TLC

----------------------------------------------------------------------------
(* Program constants                                                       *)

AVAILABLE == "AVAILABLE"
INACTIVE  == "INACTIVE"
REQUESTED == "REQUESTED"
QUERYING  == "QUERYING"
REMOVING  == "REMOVING"
EXPORTING == "EXPORTING"
UPLOADING == "UPLOADING"
IMPORTING == "IMPORTING"
APPLYING  == "APPLYING"
FINISHED  == "COMPLETED"
FAILURE   == "FAILURE"
ERROR     == "ERROR"
UNKNOWN   == "UNKNOWN"

(* README: the state the documentation lists between EXPORTING and         *)
(* UPLOADING.  The worker defines no such constant.                        *)
DOWNLOADING == "DOWNLOADING"

Null == << >>

----------------------------------------------------------------------------
(* Bounds of the model                                                     *)

NumRequests == 2
MaxObjects  == 6
MaxStamp    == 1

Reqs == 1 .. NumRequests
Oids == 1 .. MaxObjects

----------------------------------------------------------------------------
(* The devices of the environment                                          *)

LocalHost == <<"l", "o", "c", "a", "l", "h", "o", "s", "t">>
LocalPort == <<"8", "1", "0", "0">>

(* validateTarget resolves a missing target or 'localhost' to this.        *)
LocalDevice == [targetHost |-> LocalHost, targetPort |-> LocalPort]

(* Two trusted devices reached at the same address on ports 443 and 4430,  *)
(* and the source device.                                                  *)
TargetA == [targetHost |-> <<"t">>, targetPort |-> <<"4", "4", "3">>]
TargetB == [targetHost |-> <<"t">>, targetPort |-> <<"4", "4", "3", "0">>]
Source  == [targetHost |-> <<"s">>, targetPort |-> <<"4", "4", "3">>]

RemoteTargets == {TargetA, TargetB}
Targets == RemoteTargets \cup {LocalDevice}

(* Policy names and the id a device gives to a policy of that name.        *)
NameA == <<"a">>
NameB == <<"b">>
Names == {NameA, NameB}

IdOfName(name) == IF name = NameA THEN <<"A">> ELSE IF name = NameB THEN <<"B">> ELSE <<"Z">>

(* versionDatetime strings, and new Date(s).getTime() of each.             *)
V0 == "v0"
V1 == "v1"
getTime(lastChanged) ==
    IF lastChanged = V0 THEN <<"1", "0">>
    ELSE IF lastChanged = V1 THEN <<"2", "0">>
    ELSE <<"N", "a", "N">>

Policy(id, name, lastChanged, active) ==
    [name |-> name, lastChanged |-> lastChanged, id |-> id, active |-> active]

(* What the source device holds: policy a at version v1.                   *)
SourcePolicies == << Policy(IdOfName(NameA), NameA, V1, TRUE) >>

(* A second source device.  It holds the same policy a (the id a device    *)
(* gives a policy is made from the policy's name, and a policy             *)
(* synchronised between the devices carries one versionDatetime), and a    *)
(* policy b.                                                               *)
SourceB == [targetHost |-> <<"r">>, targetPort |-> <<"4", "4", "3">>]

PoliciesOn(from) ==
    IF from = SourceB
    THEN SourcePolicies \o << Policy(IdOfName(NameB), NameB, V1, TRUE) >>
    ELSE SourcePolicies

(* What a target may hold when the model starts: nothing, policy a at the  *)
(* source's version, a stale policy a, or a stale policy b.  A device      *)
(* holds at most one policy of a name.                                     *)
InitialTargetPolicies ==
    { << >>,
      << Policy(IdOfName(NameA), NameA, V1, TRUE) >>,
      << Policy(IdOfName(NameA), NameA, V0, TRUE) >>,
      << Policy(IdOfName(NameB), NameB, V0, TRUE) >> }

----------------------------------------------------------------------------
(* Helpers on sequences                                                    *)

Range(s) == { s[i] : i \in DOMAIN s }

startsWith(s, prefix) ==
    /\ Len(prefix) <= Len(s)
    /\ \A i \in 1 .. Len(prefix) : s[i] = prefix[i]

(* `${host}:${port}:${policyId}`                                           *)
IndexOf(host, port, policyId) == host \o <<":">> \o port \o <<":">> \o policyId

(* `${host}:${port}:${policyId}:${timestamp}`                              *)
IndexOf4(host, port, policyId, timestamp) ==
    host \o <<":">> \o port \o <<":">> \o policyId \o <<":">> \o timestamp


----------------------------------------------------------------------------
(* The registry of request states: `requestedTasks`                        *)
(*                                                                         *)
(* The program's requestedTasks is a JavaScript object whose values are    *)
(* objects shared by reference: getPoliciesOnBigIP hands the same objects  *)
(* to its callers, which read them after later callbacks changed them.     *)
(* `heap` holds the objects; `requestedTasks` is the sequence of           *)
(* (key, object) pairs in insertion order, the order Object.keys gives.    *)

FreeObj == [name |-> Null, lastChanged |-> "", id |-> Null, state |-> "FREE", errMessage |-> Null]

NewTask(id, name, lastChanged, state) ==
    [name |-> name, lastChanged |-> lastChanged, id |-> id, state |-> state, errMessage |-> Null]

Keys(tasks) == { tasks[i].key : i \in DOMAIN tasks }

hasOwnProperty(tasks, key) == key \in Keys(tasks)

PosOf(tasks, key) == CHOOSE i \in DOMAIN tasks : tasks[i].key = key

OidOf(tasks, key) == tasks[PosOf(tasks, key)].oid

(* the object a new literal gets: the lowest free slot                     *)
Alloc(h) ==
    IF \E o \in Oids : h[o].state = "FREE"
    THEN CHOOSE o \in Oids : h[o].state = "FREE" /\ \A p \in Oids : h[p].state = "FREE" => o <= p
    ELSE 0

(* requestedTasks[key] = obj, obj a new object                             *)
SetNew(G, key, obj) ==
    LET o == Alloc(G.heap) IN
    [ tasks |-> IF hasOwnProperty(G.tasks, key)
                THEN [G.tasks EXCEPT ![PosOf(G.tasks, key)].oid = o]
                ELSE Append(G.tasks, [key |-> key, oid |-> o]),
      heap  |-> [G.heap EXCEPT ![o] = obj] ]

(* delete requestedTasks[key]                                              *)
DeleteKey(G, key) ==
    [ tasks |-> SelectSeq(G.tasks, LAMBDA e : e.key # key),
      heap  |-> G.heap ]

(* an object no key and no caller refers to any more is reclaimed          *)
Collect(h, tasks, held) ==
    [ o \in Oids |->
        IF o \in { tasks[i].oid : i \in DOMAIN tasks } \cup held THEN h[o] ELSE FreeObj ]

(* updateInflightState without its FINISHED branch: the entry is kept and  *)
(* its state becomes the state given.                                      *)
updateInflightState_KeepsFinished(G, targetHost, targetPort, policyId, state, errMessage) ==
    LET inFlightIndex == IndexOf(targetHost, targetPort, policyId)
        G1 == IF ~ hasOwnProperty(G.tasks, inFlightIndex)
              THEN SetNew(G, inFlightIndex, NewTask(policyId, policyId, "", state))
              ELSE [G EXCEPT !.heap[OidOf(G.tasks, inFlightIndex)].state = state]
    IN  IF state = ERROR
        THEN [G1 EXCEPT !.heap[OidOf(G1.tasks, inFlightIndex)].errMessage = errMessage]
        ELSE G1

updateInflightState(G, targetHost, targetPort, policyId, state, errMessage) ==
    LET inFlightIndex == IndexOf(targetHost, targetPort, policyId) IN
    IF state = FINISHED
    THEN IF hasOwnProperty(G.tasks, inFlightIndex) THEN DeleteKey(G, inFlightIndex) ELSE G
    ELSE LET G1 == IF ~ hasOwnProperty(G.tasks, inFlightIndex)
                   THEN SetNew(G, inFlightIndex, NewTask(policyId, policyId, "", state))
                   ELSE [G EXCEPT !.heap[OidOf(G.tasks, inFlightIndex)].state = state]
         IN  IF state = ERROR
             THEN [G1 EXCEPT !.heap[OidOf(G1.tasks, inFlightIndex)].errMessage = errMessage]
             ELSE G1

----------------------------------------------------------------------------
(* State                                                                   *)

VARIABLES
    requestedTasks,     \* the registry: sequence of [key, oid], insertion order
    heap,               \* the registry's objects
    inFlightExports,    \* key -> the requests listening on its notify
    inFlightDownloads,  \* key -> the requests listening on its notify
    inFlightUploads,    \* the keys with an upload in flight
    inFlightImports,    \* key -> the requests listening on its notify
    files,              \* downloadDirectory: file name -> [writer, state]
    errorFiles,         \* the .upload.error marker files in downloadDirectory
    dev,                \* target device -> the sequence of policies it holds
    req,                \* the POST submissions and where each pipeline stands
    micro,              \* promise reactions queued by the running callback
    del,                \* the DELETE operation in progress
    get,                \* the GET (status query) in progress
    clock,              \* new Date().getTime()
    poller,             \* the pollTaskUntilFinished call in progress
    cache,              \* the sweep of clearPolicyFileCache: file -> its ctime
    upload              \* one uploadPolicyFileToBigIP call, chunk by chunk

vars == << requestedTasks, heap, inFlightExports, inFlightDownloads, inFlightUploads,
           inFlightImports, files, errorFiles, dev, req, micro, del, get,
           clock, poller, cache, upload >>

(* The clock and what runs on it.                                          *)
timed == << clock, poller, cache >>

(* The registry, the in-flight maps, the files, the devices and the        *)
(* operations on them.                                                     *)
untimed == << requestedTasks, heap, inFlightExports, inFlightDownloads, inFlightUploads,
              inFlightImports, files, errorFiles, dev, req, micro, del, get, upload >>

EmptyMap == [ k \in {} |-> << >> ]

Without(f, k) == [ x \in DOMAIN f \ {k} |-> f[x] ]

Registry == [tasks |-> requestedTasks, heap |-> heap]

(* Files of downloadDirectory.  fs.createWriteStream makes a new file      *)
(* under the name, written by request r; the stream's 'finish' completes   *)
(* the file the stream writes, which is the file under that name only      *)
(* while no one unlinked or replaced it.  The state of a finished file is  *)
(* "complete" (a policy the target can import) or "invalid" (anything      *)
(* else).                                                                  *)
createWriteStream(fs, name, r) == (name :> [state |-> "partial", writer |-> r]) @@ fs

finish(fs, name, r, state) ==
    IF name \in DOMAIN fs /\ fs[name].writer = r
    THEN [fs EXCEPT ![name].state = state] ELSE fs

existsSync(fs, name) == name \in DOMAIN fs

unlinkSync(fs, name) == Without(fs, name)

(* resolvePolicyFileName: POLICYFILEPREFIX _ policyId _ timestamp .xml     *)
resolvePolicyFileName(policyId, timestamp) ==
    <<"e", "x", "p", "_">> \o policyId \o <<"_">> \o timestamp \o <<".", "x", "m", "l">>

(* new Error(message), and err.message: undefined for a value that is not  *)
(* an Error (a string passed where an Error is expected)                   *)
Err(message) == << "Error", message >>

MessageOf(err) == IF Len(err) = 2 /\ err[1] = "Error" THEN << err[2] >> ELSE Null

(* How the promise a coalesced operation returned to a request settled:    *)
(* the request that ran the operation, "resolved" or "rejected", and the   *)
(* value or the error.                                                     *)
Outcome(owner, kind, val) == [owner |-> owner, kind |-> kind, val |-> val]

NoOutcome == Outcome(0, "none", Null)

CoalescedOps == {"export", "download", "import"}

IdleReq ==
    [ policyId |-> Null, held |-> "", err |-> Null,
      pc |-> "idle", resp |-> "none",
      mode |-> "", source |-> LocalDevice, target |-> LocalDevice, policyName |-> Null,
      targetPolicyName |-> Null, sourceUrl |-> Null, sourcePolicyId |-> Null,
      sourcePolicyName |-> Null, sourcePolicyLastChanged |-> "",
      sourcePolicyTimestamp |-> Null, requestIndex |-> Null, needToRemove |-> FALSE,
      targetPolicyId |-> Null, importPolicyId |-> Null, snap |-> << >>,
      respList |-> << >>, respId |-> Null, hist |-> << >>,
      out |-> [ op \in CoalescedOps |-> NoOutcome ],
      nExport |-> 0, nUpload |-> 0, nImport |-> 0, nApply |-> 0, nRemove |-> 0,
      overlaps |-> {}, staged |-> "",
      targetVersion |-> Null, answered |-> << >>, post |-> Null ]

IdleOp == [ policyId |-> Null, pc |-> "idle", resp |-> "none", target |-> LocalDevice,
            policyName |-> Null, targetPolicyId |-> Null, snap |-> << >>,
            respList |-> << >>, nRemove |-> 0, targetPolicyState |-> "", status |-> 0,
            completed |-> 0, called |-> {}, tracked |-> {}, untracked |-> FALSE,
            live |-> FALSE, changed |-> FALSE ]

(* History kept for the properties: the submissions in flight when this    *)
(* one was made, what the target's answer to the policy query showed for   *)
(* the requested name at the requested version, whether the file was       *)
(* staged when the request became the owner of an export, and the POST     *)
(* itself: its body, the devices trusted when it came and the status codes *)
(* it was answered with.                                                   *)
InFlight(rqs) == { q \in Reqs : rqs[q].pc \notin {"idle", "done", "failed", "refused"} }

HeldOnTarget(items, rq) ==
    IF \E i \in DOMAIN items : /\ items[i].name = rq.targetPolicyName
                               /\ items[i].lastChanged = rq.sourcePolicyLastChanged
    THEN "same"
    ELSE IF \E i \in DOMAIN items : items[i].name = rq.targetPolicyName
    THEN "stale"
    ELSE "none"

(* the objects some pending getPoliciesOnBigIP call still refers to        *)
Held(rq, d, g) ==
    UNION { { rq[r].snap[i].oid : i \in DOMAIN rq[r].snap } : r \in Reqs }
      \cup { d.snap[i].oid : i \in DOMAIN d.snap }
      \cup { g.snap[i].oid : i \in DOMAIN g.snap }

(* The timed constants of the program, in milliseconds.                    *)
pollDelay == 2000
TASKTIMEOUT == 120000
POLICYCACHETIME == 3600000

(* The clock saturates at MaxTime: a clock of MaxTime stands for any time *)
(* from MaxTime on. Every deadline the model compares the clock with is at *)
(* most MaxTime, so the comparisons come out as they do in the program.    *)
MaxTime == 130000
Quantum == 1000

(* The latest time at which the model starts a poller, and the longest a   *)
(* callback that is ready, or a request that is out, is kept waiting.      *)
MaxStart == 2000
MaxLate == 2000

(* The remote ASM task a poller follows: its status is STARTED for the     *)
(* first `after` polls and `final` from then on ("never": STARTED for      *)
(* ever, "absent": a body without a status field); `ref` tells whether the *)
(* finished task carries result.policyReference, with or without a query   *)
(* string in its link.                                                     *)
STARTED == "STARTED"
MaxPollsToFinish == 1
Finals == {"never", "absent", FINISHED, FAILURE}
Refs == {"none", "query", "plain"}
Jobs == { j \in [final : Finals, after : 0 .. MaxPollsToFinish, ref : Refs] :
            /\ j.final # FINISHED => j.ref = "none"
            /\ j.final = "never" => j.after = 0 }
NoJob == [final |-> "never", after |-> 0, ref |-> "none"]

LinkQuery == << "/", "p", "/", "A", "?", "v", "=", "1" >>
LinkPlain == << "/", "p", "/", "A" >>

(* path.basename(link) for a link that does not end with a separator.      *)
basename(link) ==
    LET slashes == { i \in DOMAIN link : link[i] = "/" }
        last == IF slashes = {} THEN 0 ELSE CHOOSE i \in slashes : \A k \in slashes : k <= i
    IN  SubSeq(link, last + 1, Len(link))

(* s.split('?')[0]                                                         *)
splitFirst(s) ==
    LET marks == { i \in DOMAIN s : s[i] = "?" }
        first == IF marks = {} THEN Len(s) + 1 ELSE CHOOSE i \in marks : \A k \in marks : i <= k
    IN  SubSeq(s, 1, first - 1)

(* The body getTaskStatus resolves with on the k-th poll of the job.       *)
ResponseBody(job, k) ==
    LET final == k > job.after /\ job.final # "never"
    IN  [ status |-> IF final /\ job.final \in {FINISHED, FAILURE} THEN job.final ELSE STARTED,
          link |-> IF ~final \/ job.ref = "none" THEN Null
                   ELSE IF job.ref = "query" THEN LinkQuery ELSE LinkPlain,
          hasStatus |-> ~(final /\ job.final = "absent"),
          hasRef |-> final /\ job.ref # "none",
          poll |-> k ]

(* No pollTaskUntilFinished call in progress. `state` is the state of the  *)
(* promise the call returns, `next` what the call has pending: the         *)
(* setImmediate, a status request, the wait timer or nothing.              *)
IdlePoller ==
    [ state |-> "idle", kind |-> "none", last |-> Null, job |-> NoJob, next |-> "none",
      timeout |-> 0, start |-> 0, stop |-> 0, due |-> 0,
      polls |-> 0, value |-> Null, settledAt |-> 0, pollsAtSettle |-> 0,
      unanswered |-> FALSE ]

(* No sweep in progress, over an empty directory: `dir` gives the ctime of *)
(* each file of downloadDirectory, `pending` the files whose fs.stat is    *)
(* out, `seen` what the stat callback found and did for a file.            *)
IdleCache ==
    [ dir |-> EmptyMap, pending |-> {}, sweptAt |-> 0, seen |-> EmptyMap ]

(* No uploadPolicyFileToBigIP call in progress.  `state` is the state of   *)
(* the promise the call returns, `sent` the chunk requests made of the     *)
(* target so far, `answers` how each was answered (status 0: the request   *)
(* errored), `inFlight` whether inFlightUploads holds the call's key and   *)
(* `errorFile` whether the .upload.error file of the call exists.          *)
IdleUpload ==
    [ state |-> "idle", pc |-> "idle", start |-> 0, size |-> 0,
      CHUNK_SIZE |-> 1, end |-> 0, sent |-> << >>, answers |-> << >>,
      inFlight |-> FALSE, errorFile |-> FALSE ]

(* The state after construction of everything but the clock.               *)
InitUntimed ==
    /\ requestedTasks = << >>
    /\ heap = [ o \in Oids |-> FreeObj ]
    /\ inFlightExports = EmptyMap
    /\ inFlightDownloads = EmptyMap
    /\ inFlightUploads = {}
    /\ inFlightImports = EmptyMap
    /\ files = EmptyMap
    /\ errorFiles = {}
    /\ \E held \in InitialTargetPolicies :
          dev = [ t \in RemoteTargets |-> IF t = TargetA THEN held ELSE << >> ]
    /\ req = [ r \in Reqs |-> IdleReq ]
    /\ micro = << >>
    /\ del = IdleOp
    /\ get = IdleOp
    /\ upload = IdleUpload

Init ==
    /\ InitUntimed
    /\ clock = 0
    /\ poller = IdlePoller
    /\ cache = IdleCache

----------------------------------------------------------------------------
(* getPoliciesOnBigIP                                                      *)

(* The synchronous part: the tracked entries the call keeps, as references *)
(* to the registry's objects, with the ids it copies into                  *)
(* inFlightPolicyIds.                                                      *)
TrackedMatches(targetHost, targetPort, inFlightIndex) ==
    IF targetHost # LocalHost
    THEN startsWith(inFlightIndex, targetHost \o <<":">> \o targetPort)
    ELSE TRUE

getPoliciesCall(G, targetHost, targetPort, excludeInFlight) ==
    IF excludeInFlight THEN << >>
    ELSE LET kept == SelectSeq(G.tasks,
                        LAMBDA e : TrackedMatches(targetHost, targetPort, e.key))
         IN  [ i \in DOMAIN kept |->
                 [id |-> G.heap[kept[i].oid].id, key |-> kept[i].key, oid |-> kept[i].oid] ]

(* The returnPolicy object built from one item of the device's answer.     *)
LivePolicy(policy) ==
    [ name |-> policy.name, lastChanged |-> policy.lastChanged, id |-> policy.id,
      state |-> IF policy.active THEN AVAILABLE ELSE INACTIVE, errMessage |-> Null ]

(* The list the call resolves with once the device answered with `items`:  *)
(* the kept objects as they are now, then the device's policies whose id   *)
(* is not in inFlightPolicyIds.                                            *)
getPoliciesResolve(h, snap, items) ==
    LET inFlightPolicyIds == { snap[i].id : i \in DOMAIN snap }
        live == SelectSeq(items, LAMBDA p : p.id \notin inFlightPolicyIds)
    IN  [ i \in DOMAIN snap |-> h[snap[i].oid] ] \o [ i \in DOMAIN live |-> LivePolicy(live[i]) ]

----------------------------------------------------------------------------
(* onPost, node to node: pull the policy from the source device and push   *)
(* it to the target device                                                 *)

(* The query and body parameters a submission may carry.                   *)
NodeInputs ==
    { [policyId |-> Null, policyName |-> NameA, targetPolicyName |-> Null],
      [policyId |-> IdOfName(NameA), policyName |-> Null, targetPolicyName |-> NameB] }

PostTargets == RemoteTargets

Failed(rq, err) ==
    [rq EXCEPT !.pc = "failed", !.err = err, !.resp = "none",
               !.snap = << >>, !.respList = << >>, !.respId = Null]

Done(rq) ==
    [rq EXCEPT !.pc = "done", !.resp = "none",
               !.snap = << >>, !.respList = << >>, !.respId = Null]

(* TMOS versions, and the part of one before the first dot.                *)
V13 == << "1", "3", ".", "1" >>
V130 == << "1", "3", ".", "0" >>
V14 == << "1", "4", ".", "1" >>
Versions == {V13, V130, V14, Null}

major(version) ==
    LET dots == { i \in DOMAIN version : version[i] = "." }
        first == IF dots = {} THEN Len(version) + 1
                 ELSE CHOOSE i \in dots : \A k \in dots : i <= k
    IN  SubSeq(version, 1, first - 1)

(* The test with the second condition left out.                            *)
validateTMOSCompatibility_AnyTarget(sourceVersion, targetVersion) ==
    sourceVersion # Null

validateTMOSCompatibility(sourceVersion, targetVersion) ==
    IF sourceVersion # Null /\ targetVersion # Null
    THEN major(sourceVersion) = major(targetVersion)
    ELSE FALSE

(* The trusted devices as getDevices lists them, with the version each     *)
(* reports.                                                                *)
UuidOf(device) ==
    IF device = LocalDevice THEN LocalHost
    ELSE << "u" >> \o device.targetHost \o device.targetPort

TrustedDevices(versions) ==
    << [targetHost |-> Source.targetHost, targetPort |-> Source.targetPort,
        targetVersion |-> versions[1], targetUUID |-> UuidOf(Source)],
       [targetHost |-> TargetA.targetHost, targetPort |-> TargetA.targetPort,
        targetVersion |-> versions[2], targetUUID |-> UuidOf(TargetA)],
       [targetHost |-> TargetB.targetHost, targetPort |-> TargetB.targetPort,
        targetVersion |-> versions[3], targetUUID |-> UuidOf(TargetB)] >>

DeviceTables == { TrustedDevices(<< v, w, V13 >>) : v \in Versions, w \in Versions }

(* The devices of a deployment on one TMOS version.                        *)
SameVersionDevices == TrustedDevices(<< V13, V13, V13 >>)

(* A device name that no trusted device has.                               *)
Untrusted == << "x" >>

(* validateTarget: the local device for no name and for 'localhost', and   *)
(* else the first trusted device of that host or UUID; the promise is      *)
(* rejected when there is none.  The object of the local device carries no *)
(* targetVersion.                                                          *)
validateTarget(targetDevice, devices) ==
    IF targetDevice = Null \/ targetDevice = LocalHost
    THEN [ targetVersion |-> Null, device |-> LocalDevice, ok |-> TRUE ]
    ELSE LET found == { i \in DOMAIN devices :
                          \/ devices[i].targetHost = targetDevice
                          \/ devices[i].targetUUID = targetDevice }
         IN  IF found = {}
             THEN [ targetVersion |-> Null, device |-> LocalDevice, ok |-> FALSE ]
             ELSE LET i == CHOOSE i \in found : \A k \in found : i <= k
                  IN  [ targetVersion |-> devices[i].targetVersion,
                        device |-> [targetHost |-> devices[i].targetHost,
                                    targetPort |-> devices[i].targetPort],
                        ok |-> TRUE ]

(* restOperation.fail(err): the POST is answered with the error and        *)
(* nothing else is done for it.                                            *)
Refused(mode, body, devices, status, message) ==
    [IdleReq EXCEPT !.pc = "refused", !.mode = mode,
                    !.post = [devices |-> devices, body |-> body],
                    !.policyId = body.policyId, !.policyName = body.policyName,
                    !.targetPolicyName = body.targetPolicyName, !.sourceUrl = body.url,
                    !.err = Err(message), !.answered = << status >>]

(* onPost without a url: both validateTarget calls, the version test and,  *)
(* when they pass, the call of getPoliciesOnBigIP for the source device    *)
(* and the 202 answer.                                                     *)
PostNode(r, body, devices) ==
    /\ micro = << >>
    /\ req[r].pc = "idle"
    /\ \A q \in Reqs : q < r => req[q].pc # "idle"
    /\ LET source == validateTarget(body.sourceDevice, devices)
           target == validateTarget(body.targetDevice, devices)
           targetPolicyName ==
               IF body.targetPolicyName = Null THEN body.policyName ELSE body.targetPolicyName
       IN  req' = [req EXCEPT ![r] =
                     IF ~ source.ok \/ ~ target.ok
                     THEN Refused("node", body, devices, 400, "is not a trusted device")
                     ELSE IF ~ validateTMOSCompatibility(source.targetVersion,
                                                         target.targetVersion)
                     THEN Refused("node", body, devices, 400, "is not compatible with ASM on")
                     ELSE
                     [IdleReq EXCEPT
                        !.pc = "srcQuery", !.mode = "node", !.overlaps = InFlight(req),
                        !.source = source.device, !.target = target.device,
                        !.policyId = body.policyId, !.policyName = body.policyName,
                        !.targetPolicyName = targetPolicyName,
                        !.sourcePolicyId =
                            IF body.policyId # Null THEN body.policyId ELSE targetPolicyName,
                        !.targetVersion = target.targetVersion,
                        !.answered = << 202 >>,
                        !.post = [devices |-> devices, body |-> body],
                        !.snap = getPoliciesCall(Registry, source.device.targetHost,
                                                 source.device.targetPort, FALSE)]]
    /\ heap' = Collect(heap, requestedTasks, Held(req', del, get))
    /\ UNCHANGED << requestedTasks, inFlightExports, inFlightDownloads, inFlightUploads,
                    inFlightImports, files, errorFiles, dev, micro, del, get >>
    /\ UNCHANGED << timed, upload >>

(* A POST that names the source by its host and a trusted target by its    *)
(* UUID, between devices of one version.                                   *)
SubmitNode(r, inp, tgt) ==
    PostNode(r, [policyId |-> inp.policyId, policyName |-> inp.policyName,
                 targetPolicyName |-> inp.targetPolicyName, targetDevice |-> UuidOf(tgt),
                 url |-> Null, sourceDevice |-> Source.targetHost],
             SameVersionDevices)

RECURSIVE MatchSourcePolicies(_, _, _)
(* sourcePolicies.forEach of onPost: every policy the request names gets a *)
(* registry entry in state REQUESTED; the last one is the one kept in the  *)
(* closure's variables.                                                    *)
MatchSourcePolicies(sourcePolicies, rq, G) ==
    IF sourcePolicies = << >> THEN [G |-> G, rq |-> rq]
    ELSE LET sourcePolicy == Head(sourcePolicies)
             matches == \/ (rq.policyId # Null /\ sourcePolicy.id = rq.policyId)
                        \/ (rq.policyName # Null /\ rq.policyName = sourcePolicy.name)
             requestIndex == IndexOf(rq.target.targetHost, rq.target.targetPort, sourcePolicy.id)
         IN  IF matches
             THEN MatchSourcePolicies(Tail(sourcePolicies),
                    [rq EXCEPT !.sourcePolicyId = sourcePolicy.id,
                               !.sourcePolicyName = sourcePolicy.name,
                               !.sourcePolicyLastChanged = sourcePolicy.lastChanged,
                               !.sourcePolicyTimestamp = getTime(sourcePolicy.lastChanged),
                               !.requestIndex = requestIndex,
                               !.hist = Append(rq.hist, REQUESTED)],
                    SetNew(G, requestIndex,
                           NewTask(sourcePolicy.id, rq.targetPolicyName,
                                   sourcePolicy.lastChanged, REQUESTED)))
             ELSE MatchSourcePolicies(Tail(sourcePolicies), rq, G)

(* The source device answered the policy query (or the query failed).      *)
SourceQueryDone(r, ok) ==
    /\ micro = << >>
    /\ req[r].pc = "srcQuery"
    /\ IF ~ ok
       THEN /\ req' = [req EXCEPT ![r] = Failed(req[r], Err("query failed"))]
            /\ UNCHANGED << requestedTasks, micro >>
            /\ heap' = Collect(heap, requestedTasks, Held(req', del, get))
       ELSE LET m  == MatchSourcePolicies(
                         getPoliciesResolve(heap, req[r].snap, PoliciesOn(req[r].source)),
                         req[r], Registry)
                rq == m.rq
                host == rq.target.targetHost
                port == rq.target.targetPort
            IN  IF rq.sourcePolicyName = Null
                THEN LET G == updateInflightState(m.G, host, port, rq.sourcePolicyId, ERROR,
                                                  << "source policy could not be found" >>)
                     IN  /\ req' = [req EXCEPT ![r] =
                                      Failed([rq EXCEPT !.hist = Append(rq.hist, ERROR)],
                                             Err("source policy could not be found"))]
                         /\ requestedTasks' = G.tasks
                         /\ micro' = micro
                         /\ heap' = Collect(G.heap, G.tasks, Held(req', del, get))
                ELSE LET G == updateInflightState(m.G, host, port, rq.sourcePolicyId,
                                                  QUERYING, Null)
                         (* getPoliciesOnBigIP(target, true): for localhost it is   *)
                         (* resolved at once with the empty list                    *)
                         local == host = LocalHost
                     IN  /\ req' = [req EXCEPT ![r] =
                                      [rq EXCEPT !.pc = "tgtQuery",
                                                 !.resp = IF local THEN "ok" ELSE "none",
                                                 !.snap = << >>, !.respList = << >>,
                                                 !.hist = Append(rq.hist, QUERYING)]]
                         /\ requestedTasks' = G.tasks
                         /\ micro' = IF local THEN << r >> ELSE << >>
                         /\ heap' = Collect(G.heap, G.tasks, Held(req', del, get))
    /\ UNCHANGED << inFlightExports, inFlightDownloads, inFlightUploads, inFlightImports,
                    files, errorFiles, dev, del, get >>
    /\ UNCHANGED << timed, upload >>

(* The target device serves the policy query: its answer is what it holds  *)
(* at this moment.                                                         *)
TargetQueryServe(r, ok) ==
    /\ micro = << >>
    /\ req[r].pc \in {"tgtQuery", "urlTgtQuery"}
    /\ req[r].resp = "none"
    /\ req' = [req EXCEPT ![r].resp = IF ok THEN "ok" ELSE "err",
                          ![r].respList = IF ok THEN dev[req[r].target] ELSE << >>]
    /\ UNCHANGED << requestedTasks, heap, inFlightExports, inFlightDownloads, inFlightUploads,
                    inFlightImports, files, errorFiles, dev, micro, del, get >>
    /\ UNCHANGED << timed, upload >>

RECURSIVE CompareTargetPolicies(_, _, _)
(* targetPolicies.forEach of the node-to-node pipeline                     *)
CompareTargetPolicies(targetPolicies, rq, G) ==
    IF targetPolicies = << >> THEN [G |-> G, rq |-> rq]
    ELSE LET targetPolicy == Head(targetPolicies) IN
         IF /\ rq.targetPolicyName = targetPolicy.name
            /\ rq.sourcePolicyLastChanged = targetPolicy.lastChanged
         THEN CompareTargetPolicies(Tail(targetPolicies),
                [rq EXCEPT !.hist = Append(rq.hist, FINISHED)],
                updateInflightState(G, rq.target.targetHost, rq.target.targetPort,
                                    rq.sourcePolicyId, FINISHED, Null))
         ELSE IF rq.targetPolicyName = targetPolicy.name
         THEN CompareTargetPolicies(Tail(targetPolicies),
                [rq EXCEPT !.needToRemove = TRUE, !.targetPolicyId = targetPolicy.id], G)
         ELSE CompareTargetPolicies(Tail(targetPolicies), rq, G)

(* The answer of the target device reaches the pipeline.                   *)
TargetQueryDone(r) ==
    /\ req[r].pc = "tgtQuery"
    /\ req[r].resp # "none"
    /\ IF req[r].resp = "ok" /\ req[r].target.targetHost = LocalHost
       THEN micro = << r >> ELSE micro = << >>
    /\ IF req[r].resp = "err"
       THEN /\ req' = [req EXCEPT ![r] = Failed(req[r], Err("query failed"))]
            /\ UNCHANGED << requestedTasks, micro >>
            /\ heap' = Collect(heap, requestedTasks, Held(req', del, get))
       ELSE LET c  == CompareTargetPolicies(
                         getPoliciesResolve(heap, req[r].snap, req[r].respList),
                         [req[r] EXCEPT !.held = HeldOnTarget(req[r].respList, req[r])],
                         Registry)
                rq == c.rq
            IN  IF rq.needToRemove
                THEN LET G == updateInflightState(c.G, rq.target.targetHost,
                                 rq.target.targetPort, rq.sourcePolicyId, REMOVING, Null)
                     IN  /\ req' = [req EXCEPT ![r] =
                                      [rq EXCEPT !.pc = "remove", !.resp = "none",
                                                 !.snap = << >>, !.respList = << >>,
                                                 !.nRemove = rq.nRemove + 1,
                                                 !.hist = Append(rq.hist, REMOVING)]]
                         /\ requestedTasks' = G.tasks
                         /\ micro' = << >>
                         /\ heap' = Collect(G.heap, G.tasks, Held(req', del, get))
                ELSE /\ req' = [req EXCEPT ![r] =
                                  [rq EXCEPT !.pc = "export", !.resp = "none",
                                             !.snap = << >>, !.respList = << >>]]
                     /\ requestedTasks' = c.G.tasks
                     /\ micro' = << r >>
                     /\ heap' = Collect(c.G.heap, c.G.tasks, Held(req', del, get))
    /\ UNCHANGED << inFlightExports, inFlightDownloads, inFlightUploads, inFlightImports,
                    files, errorFiles, dev, del, get >>
    /\ UNCHANGED << timed, upload >>

(* deletePolicyOnBigIP as the device serves it: the policy of that id is   *)
(* removed; the call fails when the device holds no such policy, or when   *)
(* the request does not reach it.                                          *)
RemovePolicy(policies, policyId) == SelectSeq(policies, LAMBDA p : p.id # policyId)

HoldsId(policies, policyId) == \E i \in DOMAIN policies : policies[i].id = policyId

HoldsName(policies, name) == \E i \in DOMAIN policies : policies[i].name = name

RemoveServe(r, reached) ==
    /\ micro = << >>
    /\ req[r].pc = "remove"
    /\ req[r].resp = "none"
    /\ LET t == req[r].target
           ok == reached /\ t \in DOMAIN dev /\ HoldsId(dev[t], req[r].targetPolicyId)
       IN  /\ req' = [req EXCEPT ![r].resp = IF ok THEN "ok" ELSE "err"]
           /\ dev' = IF ok THEN [dev EXCEPT ![t] = RemovePolicy(dev[t], req[r].targetPolicyId)]
                     ELSE dev
    /\ UNCHANGED << requestedTasks, heap, inFlightExports, inFlightDownloads, inFlightUploads,
                    inFlightImports, files, errorFiles, micro, del, get >>
    /\ UNCHANGED << timed, upload >>

RemoveDone(r) ==
    /\ micro = << >>
    /\ req[r].pc = "remove"
    /\ req[r].resp # "none"
    /\ IF req[r].resp = "err"
       THEN IF req[r].mode = "node"
            THEN /\ req' = [req EXCEPT ![r] = Failed(req[r], Err("delete failed"))]
                 /\ micro' = << >>
            ELSE /\ req' = [req EXCEPT ![r].pc = "catch", ![r].resp = "none",
                                       ![r].err = Err("delete failed")]
                 /\ micro' = << r >>
       ELSE /\ req' = [req EXCEPT ![r].pc = IF req[r].mode = "node" THEN "export" ELSE "import",
                                  ![r].resp = "none"]
            /\ micro' = << r >>
    /\ UNCHANGED << requestedTasks, heap, inFlightExports, inFlightDownloads, inFlightUploads,
                    inFlightImports, files, errorFiles, dev, del, get >>
    /\ UNCHANGED << timed, upload >>

----------------------------------------------------------------------------
(* exportPolicyFromBigIP and downloadPolicyFileFromBigIP                   *)

(* The promises the operation `op`, run by `owner`, returned to the        *)
(* requests of `who` resolve with `val`: each continues at `pc` once the   *)
(* running callback ended.                                                 *)
Resolve(rqs, who, op, owner, val, pc) ==
    [ q \in Reqs |-> IF q \in Range(who)
                     THEN [rqs[q] EXCEPT !.pc = pc, !.resp = "none",
                                         !.out[op] = Outcome(owner, "resolved", val)]
                     ELSE rqs[q] ]

(* ... reject with `err`: each continues in onPost's catch.                *)
Reject(rqs, who, op, owner, err) ==
    [ q \in Reqs |-> IF q \in Range(who)
                     THEN [rqs[q] EXCEPT !.pc = "catch", !.err = err, !.resp = "none",
                                         !.out[op] = Outcome(owner, "rejected", err)]
                     ELSE rqs[q] ]

ExportIndex(rq) == IndexOf(rq.source.targetHost, rq.source.targetPort, rq.sourcePolicyId)

DownloadIndex(rq) ==
    IndexOf4(rq.source.targetHost, rq.source.targetPort, rq.sourcePolicyId,
             rq.sourcePolicyTimestamp)

PolicyFile(rq) == resolvePolicyFileName(rq.sourcePolicyId, rq.sourcePolicyTimestamp)

(* onPost's reaction after the target was queried (and the stale policy    *)
(* removed): export, unless the registry entry is gone.                    *)
Staged(fs, rq) == IF PolicyFile(rq) \in DOMAIN fs THEN "yes" ELSE "no"

(* An owner that never looks for the staged file.                          *)
AlreadyDownloaded_Ignored(fs, rq) == FALSE

(* The test the owner of an export makes before it submits the export job. *)
AlreadyDownloaded(fs, rq) == existsSync(fs, PolicyFile(rq))

ExportStart(r) ==
    /\ micro # << >> /\ Head(micro) = r
    /\ req[r].pc = "export"
    /\ IF ~ hasOwnProperty(requestedTasks, req[r].requestIndex)
       THEN (* neither export nor import: the chain ends with the log line *)
            /\ req' = [req EXCEPT ![r] = Done(req[r])]
            /\ micro' = Tail(micro)
            /\ UNCHANGED << requestedTasks, heap, inFlightExports >>
       ELSE LET rq == req[r]
                G  == updateInflightState(Registry, rq.target.targetHost,
                          rq.target.targetPort, rq.sourcePolicyId, EXPORTING, Null)
                rq1 == [rq EXCEPT !.hist = Append(rq.hist, EXPORTING)]
            IN  /\ requestedTasks' = G.tasks
                /\ heap' = G.heap
                /\ IF ExportIndex(rq) \in DOMAIN inFlightExports
                   THEN (* join the export in flight *)
                        /\ inFlightExports' =
                              [inFlightExports EXCEPT ![ExportIndex(rq)] = Append(@, r)]
                        /\ req' = [req EXCEPT ![r] = [rq1 EXCEPT !.pc = "exportWait"]]
                        /\ micro' = Tail(micro)
                   ELSE IF AlreadyDownloaded(files, rq)
                   THEN (* already downloaded: the semaphore is added and removed *)
                        /\ inFlightExports' = inFlightExports
                        /\ req' = [req EXCEPT ![r] =
                                     [rq1 EXCEPT !.pc = "import",
                                                 !.staged = Staged(files, rq),
                                                 !.out["export"] =
                                                     Outcome(r, "resolved", << "true" >>)]]
                        /\ micro' = micro
                   ELSE /\ inFlightExports' = (ExportIndex(rq) :> << >>) @@ inFlightExports
                        /\ req' = [req EXCEPT ![r] =
                                     [rq1 EXCEPT !.pc = "exportJob",
                                                 !.staged = Staged(files, rq),
                                                 !.nExport = rq.nExport + 1]]
                        /\ micro' = Tail(micro)
    /\ UNCHANGED << inFlightDownloads, inFlightUploads, inFlightImports, files, errorFiles,
                    dev, del, get >>
    /\ UNCHANGED << timed, upload >>

(* The owner's export fails: exportError is emitted, the semaphore removed *)
ExportRejected(rqs, r, err) ==
    Reject(rqs, inFlightExports[ExportIndex(rqs[r])] \o << r >>, "export", r, err)

(* The owner's export and download succeeded: 'downloaded' is emitted with *)
(* the file name, the semaphore removed, the owner resolves with true; the *)
(* listeners' promises resolve before the owner's.                         *)
ExportResolved(rqs, r) ==
    Resolve(Resolve(rqs, inFlightExports[ExportIndex(rqs[r])], "export", r,
                    PolicyFile(rqs[r]), "import"),
            << r >>, "export", r, << "true" >>, "import")

(* exportTaskOnBigIP settled: the export job on the source device was      *)
(* polled to COMPLETED, or it failed.  On success the owner calls          *)
(* downloadPolicyFileFromBigIP.                                            *)
ExportJobDone(r, ok) ==
    /\ micro = << >>
    /\ req[r].pc = "exportJob"
    /\ LET rq == req[r]
           waiting == inFlightExports[ExportIndex(rq)] \o << r >>
       IN
       IF ~ ok
       THEN /\ req' = ExportRejected(req, r, Err("export task failed"))
            /\ micro' = waiting
            /\ inFlightExports' = Without(inFlightExports, ExportIndex(rq))
            /\ UNCHANGED << inFlightDownloads, files >>
       ELSE IF DownloadIndex(rq) \in DOMAIN inFlightDownloads
       THEN (* inFlightDownloads[index].on is not a function: the TypeError   *)
            (* is caught, the entry found there is removed, the call rejects   *)
            /\ req' = ExportRejected(req, r, Err("TypeError"))
            /\ micro' = waiting
            /\ inFlightExports' = Without(inFlightExports, ExportIndex(rq))
            /\ inFlightDownloads' = Without(inFlightDownloads, DownloadIndex(rq))
            /\ files' = files
       ELSE IF existsSync(files, PolicyFile(rq))
       THEN (* "was already downloaded": resolves, the new entry stays        *)
            /\ req' = ExportResolved(req, r)
            /\ micro' = waiting
            /\ inFlightExports' = Without(inFlightExports, ExportIndex(rq))
            /\ inFlightDownloads' = (DownloadIndex(rq) :> << >>) @@ inFlightDownloads
            /\ files' = files
       ELSE (* fs.createWriteStream(filePath), then the request is sent      *)
            /\ req' = [req EXCEPT ![r].pc = "download"]
            /\ micro' = << >>
            /\ inFlightExports' = inFlightExports
            /\ inFlightDownloads' = (DownloadIndex(rq) :> << >>) @@ inFlightDownloads
            /\ files' = createWriteStream(files, PolicyFile(rq), r)
    /\ UNCHANGED << requestedTasks, heap, inFlightUploads, inFlightImports, errorFiles,
                    dev, del, get >>
    /\ UNCHANGED << timed, upload >>

(* The download from the source device finished ('finish' of the write     *)
(* stream) or failed ('error' of the request).                             *)
DownloadDone(r, ok) ==
    /\ micro = << >>
    /\ req[r].pc = "download"
    /\ LET rq == req[r]
           waiting == inFlightExports[ExportIndex(rq)] \o << r >>
       IN  /\ micro' = waiting
           /\ inFlightExports' = Without(inFlightExports, ExportIndex(rq))
           /\ inFlightDownloads' = Without(inFlightDownloads, DownloadIndex(rq))
           /\ IF ok
              THEN /\ req' = ExportResolved(req, r)
                   /\ files' = finish(files, PolicyFile(rq), r, "complete")
              ELSE /\ req' = ExportRejected(req, r, Err("download failed"))
                   /\ files' = unlinkSync(files, PolicyFile(rq))
    /\ UNCHANGED << requestedTasks, heap, inFlightUploads, inFlightImports, errorFiles,
                    dev, del, get >>
    /\ UNCHANGED << timed, upload >>

----------------------------------------------------------------------------
(* importPolicyToBigIP: upload, import task, apply task                    *)

(* inFlightImportIndex: a constant of the call, built from the policy id   *)
(* the call was made with                                                  *)
ImportIndex(rq) == IndexOf(rq.target.targetHost, rq.target.targetPort, rq.sourcePolicyId)

UploadIndex(rq) ==
    IndexOf4(rq.target.targetHost, rq.target.targetPort, rq.sourcePolicyId,
             rq.sourcePolicyTimestamp)

(* filePath + '.upload.error.' + targetHost + targetPort                   *)
ErrorFile(rq) ==
    PolicyFile(rq) \o <<".", "e", "r", "r", ".">> \o rq.target.targetHost \o rq.target.targetPort

(* The import of the owner r settles with an error: importError is         *)
(* emitted, the semaphore removed, the owner's promise rejects.            *)
ImportRejected(rqs, r, err) ==
    Reject(rqs, inFlightImports[ImportIndex(rqs[r])] \o << r >>, "import", r, err)

(* onPost's reaction after the export (node to node) or after the target   *)
(* was queried (URL import): import, unless the registry entry is gone.    *)
ImportStart(r) ==
    /\ micro # << >> /\ Head(micro) = r
    /\ req[r].pc = "import"
    /\ LET rq == req[r] IN
       IF rq.mode = "node" /\ ~ hasOwnProperty(requestedTasks, rq.requestIndex)
       THEN /\ req' = [req EXCEPT ![r] = Done(rq)]
            /\ micro' = Tail(micro)
            /\ UNCHANGED << requestedTasks, heap, inFlightImports, inFlightUploads, errorFiles >>
       ELSE IF ImportIndex(rq) \in DOMAIN inFlightImports
       THEN (* join the import in flight *)
            /\ inFlightImports' = [inFlightImports EXCEPT ![ImportIndex(rq)] = Append(@, r)]
            /\ req' = [req EXCEPT ![r].pc = "importWait"]
            /\ micro' = Tail(micro)
            /\ UNCHANGED << requestedTasks, heap, inFlightUploads, errorFiles >>
       ELSE LET G == updateInflightState(Registry, rq.target.targetHost,
                        rq.target.targetPort, rq.sourcePolicyId, UPLOADING, Null)
                rq1 == [rq EXCEPT !.hist = Append(rq.hist, UPLOADING),
                                  !.importPolicyId = rq.sourcePolicyId]
            IN  /\ requestedTasks' = G.tasks
                /\ heap' = G.heap
                /\ IF UploadIndex(rq) \in inFlightUploads
                   THEN (* uploadPolicyFileToBigIP waits for the upload in flight *)
                        /\ inFlightImports' = (ImportIndex(rq) :> << >>) @@ inFlightImports
                        /\ req' = [req EXCEPT ![r] = [rq1 EXCEPT !.pc = "uploadPoll"]]
                        /\ micro' = Tail(micro)
                        /\ UNCHANGED << inFlightUploads, errorFiles >>
                   ELSE IF ~ existsSync(files, PolicyFile(rq))
                   THEN (* fs.statSync throws in the executor: the upload promise *)
                        (* rejects with inFlightUploads[index] left behind; the   *)
                        (* catch of importPolicyToBigIP runs after the reactions  *)
                        (* already queued                                         *)
                        /\ inFlightImports' = (ImportIndex(rq) :> << >>) @@ inFlightImports
                        /\ inFlightUploads' = inFlightUploads \cup {UploadIndex(rq)}
                        /\ errorFiles' = errorFiles \ {ErrorFile(rq)}
                        /\ req' = [req EXCEPT ![r] = [rq1 EXCEPT !.pc = "uploadThrew"]]
                        /\ micro' = Append(Tail(micro), r)
                   ELSE /\ inFlightImports' = (ImportIndex(rq) :> << >>) @@ inFlightImports
                        /\ inFlightUploads' = inFlightUploads \cup {UploadIndex(rq)}
                        /\ errorFiles' = errorFiles \ {ErrorFile(rq)}
                        /\ req' = [req EXCEPT ![r] =
                                     [rq1 EXCEPT !.pc = "upload", !.nUpload = rq.nUpload + 1]]
                        /\ micro' = Tail(micro)
    /\ UNCHANGED << inFlightExports, inFlightDownloads, files, dev, del, get >>
    /\ UNCHANGED << timed, upload >>

(* The upload promise of the owner resolved: IMPORTING and the import task *)
AfterUpload(r) ==
    LET rq == req[r]
        G  == updateInflightState(Registry, rq.target.targetHost, rq.target.targetPort,
                                  rq.importPolicyId, IMPORTING, Null)
    IN  /\ requestedTasks' = G.tasks
        /\ heap' = G.heap
        /\ req' = [req EXCEPT ![r] =
                     [rq EXCEPT !.pc = "importJob", !.resp = "none",
                                !.nImport = rq.nImport + 1,
                                !.hist = Append(rq.hist, IMPORTING)]]
        /\ micro' = << >>
        /\ inFlightImports' = inFlightImports

(* The upload promise of the owner rejected: importPolicyToBigIP's catch   *)
AfterUploadFailed(r, err) ==
    /\ req' = ImportRejected(req, r, err)
    /\ micro' = (IF micro = << >> THEN << >> ELSE Tail(micro))
                   \o inFlightImports[ImportIndex(req[r])] \o << r >>
    /\ inFlightImports' = Without(inFlightImports, ImportIndex(req[r]))
    /\ UNCHANGED << requestedTasks, heap >>

(* uploadPolicyFileToBigIP, owner: the last chunk was answered, or a chunk *)
(* failed.                                                                 *)
UploadDone(r, ok) ==
    /\ micro = << >>
    /\ req[r].pc = "upload"
    /\ inFlightUploads' = inFlightUploads \ {UploadIndex(req[r])}
    /\ IF ok
       THEN /\ AfterUpload(r)
            /\ errorFiles' = errorFiles
       ELSE /\ AfterUploadFailed(r, Err("upload failed"))
            /\ errorFiles' = errorFiles \cup {ErrorFile(req[r])}
    /\ UNCHANGED << inFlightExports, inFlightDownloads, files, dev, del, get >>
    /\ UNCHANGED << timed, upload >>

(* The upload promise of the owner rejected in its executor.               *)
UploadThrew(r) ==
    /\ micro # << >> /\ Head(micro) = r
    /\ req[r].pc = "uploadThrew"
    /\ AfterUploadFailed(r, Err("ENOENT"))
    /\ UNCHANGED << inFlightExports, inFlightDownloads, inFlightUploads, files, errorFiles,
                    dev, del, get >>
    /\ UNCHANGED << timed, upload >>

(* uploadPolicyFileToBigIP, waiting on an upload in flight:                *)
(* pollExistingTask, run every pollDelay.  Within their bounds the         *)
(* specifications below never reach this wait (no import starts while an   *)
(* upload of its key is in flight), so it is a step of none of them.       *)
UploadPoll(r) ==
    /\ micro = << >>
    /\ req[r].pc = "uploadPoll"
    /\ IF UploadIndex(req[r]) \in inFlightUploads
       THEN UNCHANGED << requestedTasks, heap, req, micro, inFlightImports >>
       ELSE IF ErrorFile(req[r]) \in errorFiles
       THEN AfterUploadFailed(r, Err("upload failed"))
       ELSE AfterUpload(r)
    /\ UNCHANGED << inFlightExports, inFlightDownloads, inFlightUploads, files, errorFiles,
                    dev, del, get >>
    /\ UNCHANGED << timed, upload >>

(* The policy a device creates from an imported file.  The file of a       *)
(* policy exported at version v carries v; the id is the device's id for   *)
(* the name; the policy is inactive until applied.                         *)
ImportedPolicy(rq) ==
    Policy(IdOfName(rq.targetPolicyName), rq.targetPolicyName,
           rq.sourcePolicyLastChanged, FALSE)

(* The target device runs the import task: FAILURE when the task fails or  *)
(* when it already holds a policy of that name.                            *)
ImportJobServe(r, ok) ==
    /\ micro = << >>
    /\ req[r].pc = "importJob"
    /\ req[r].resp = "none"
    /\ LET t == req[r].target
           good == ok /\ t \in DOMAIN dev /\ ~ HoldsName(dev[t], req[r].targetPolicyName)
       IN  /\ req' = [req EXCEPT ![r].resp = IF good THEN "ok" ELSE "err",
                                 ![r].respId = IF good THEN IdOfName(req[r].targetPolicyName)
                                               ELSE Null]
           /\ dev' = IF good THEN [dev EXCEPT ![t] = Append(@, ImportedPolicy(req[r]))]
                     ELSE dev
    /\ UNCHANGED << requestedTasks, heap, inFlightExports, inFlightDownloads, inFlightUploads,
                    inFlightImports, files, errorFiles, micro, del, get >>
    /\ UNCHANGED << timed, upload >>

(* requestedTasks[newKey] = returnPolicy; delete requestedTasks[oldKey],   *)
(* returnPolicy being the object found at oldKey with its id changed       *)
MoveKey(G, oldKey, newKey, targetPolicyId) ==
    LET o == OidOf(G.tasks, oldKey)
        h == [G.heap EXCEPT ![o].id = targetPolicyId]
        t == IF hasOwnProperty(G.tasks, newKey)
             THEN [G.tasks EXCEPT ![PosOf(G.tasks, newKey)].oid = o]
             ELSE Append(G.tasks, [key |-> newKey, oid |-> o])
    IN  DeleteKey([tasks |-> t, heap |-> h], oldKey)

(* The import task was polled to its end.                                  *)
ImportJobDone(r) ==
    /\ micro = << >>
    /\ req[r].pc = "importJob"
    /\ req[r].resp # "none"
    /\ LET rq == req[r]
           host == rq.target.targetHost
           port == rq.target.targetPort
           targetPolicyId == rq.respId
           oldKey == IndexOf(host, port, rq.importPolicyId)
       IN
       IF rq.resp = "err"
       THEN /\ req' = ImportRejected(req, r, Err("Task failed"))
            /\ micro' = inFlightImports[ImportIndex(rq)] \o << r >>
            /\ inFlightImports' = Without(inFlightImports, ImportIndex(rq))
            /\ UNCHANGED << requestedTasks, heap >>
       ELSE IF targetPolicyId # rq.importPolicyId /\ ~ hasOwnProperty(requestedTasks, oldKey)
       THEN (* returnPolicy is undefined: TypeError, caught below *)
            /\ req' = ImportRejected(req, r, Err("TypeError"))
            /\ micro' = inFlightImports[ImportIndex(rq)] \o << r >>
            /\ inFlightImports' = Without(inFlightImports, ImportIndex(rq))
            /\ UNCHANGED << requestedTasks, heap >>
       ELSE LET G0 == IF targetPolicyId # rq.importPolicyId
                      THEN MoveKey(Registry, oldKey, IndexOf(host, port, targetPolicyId),
                                   targetPolicyId)
                      ELSE Registry
                G  == updateInflightState(G0, host, port, targetPolicyId, APPLYING, Null)
            IN  /\ requestedTasks' = G.tasks
                /\ heap' = Collect(G.heap, G.tasks, Held(req, del, get))
                /\ req' = [req EXCEPT ![r] =
                             [rq EXCEPT !.pc = "applyJob", !.resp = "none",
                                        !.importPolicyId = targetPolicyId,
                                        !.nApply = rq.nApply + 1,
                                        !.hist = Append(rq.hist, APPLYING)]]
                /\ micro' = << >>
                /\ inFlightImports' = inFlightImports
    /\ UNCHANGED << inFlightExports, inFlightDownloads, inFlightUploads, files, errorFiles,
                    dev, del, get >>
    /\ UNCHANGED << timed, upload >>

Activate(policies, policyId) ==
    [ i \in DOMAIN policies |->
        IF policies[i].id = policyId THEN [policies[i] EXCEPT !.active = TRUE] ELSE policies[i] ]

(* The target device runs the apply task: FAILURE when the task fails or   *)
(* when it holds no policy of that id.                                     *)
ApplyJobServe(r, ok) ==
    /\ micro = << >>
    /\ req[r].pc = "applyJob"
    /\ req[r].resp = "none"
    /\ LET t == req[r].target
           good == ok /\ t \in DOMAIN dev /\ HoldsId(dev[t], req[r].importPolicyId)
       IN  /\ req' = [req EXCEPT ![r].resp = IF good THEN "ok" ELSE "err"]
           /\ dev' = IF good THEN [dev EXCEPT ![t] = Activate(@, req[r].importPolicyId)]
                     ELSE dev
    /\ UNCHANGED << requestedTasks, heap, inFlightExports, inFlightDownloads, inFlightUploads,
                    inFlightImports, files, errorFiles, micro, del, get >>
    /\ UNCHANGED << timed, upload >>

(* The apply task was polled to its end.                                   *)
ApplyJobDone(r) ==
    /\ micro = << >>
    /\ req[r].pc = "applyJob"
    /\ req[r].resp # "none"
    /\ LET rq == req[r]
           waiting == inFlightImports[ImportIndex(rq)] \o << r >>
       IN
       IF rq.resp = "err"
       THEN /\ req' = ImportRejected(req, r, Err("Task failed"))
            /\ UNCHANGED << requestedTasks, heap >>
            /\ micro' = waiting
       ELSE LET G == updateInflightState(Registry, rq.target.targetHost,
                        rq.target.targetPort, rq.importPolicyId, FINISHED, Null)
            IN  /\ requestedTasks' = G.tasks
                /\ heap' = Collect(G.heap, G.tasks, Held(req, del, get))
                /\ req' = Resolve([req EXCEPT ![r].hist = Append(rq.hist, FINISHED)],
                                  waiting, "import", r, rq.importPolicyId, "applied")
                /\ micro' = waiting
    /\ inFlightImports' = Without(inFlightImports, ImportIndex(req[r]))
    /\ UNCHANGED << inFlightExports, inFlightDownloads, inFlightUploads, files, errorFiles,
                    dev, del, get >>
    /\ UNCHANGED << timed, upload >>

(* onPost's last reaction of a pipeline whose import resolved: a log line  *)
Applied(r) ==
    /\ micro # << >> /\ Head(micro) = r
    /\ req[r].pc = "applied"
    /\ req' = [req EXCEPT ![r] = Done(req[r])]
    /\ micro' = Tail(micro)
    /\ UNCHANGED << requestedTasks, heap, inFlightExports, inFlightDownloads, inFlightUploads,
                    inFlightImports, files, errorFiles, dev, del, get >>
    /\ UNCHANGED << timed, upload >>

(* onPost's catch.  Node to node: the error is logged.  URL import: the    *)
(* registry entry of the request is set to ERROR.                          *)
Catch(r) ==
    /\ micro # << >> /\ Head(micro) = r
    /\ req[r].pc = "catch"
    /\ micro' = Tail(micro)
    /\ LET rq == req[r] IN
       IF rq.mode = "node"
       THEN /\ req' = [req EXCEPT ![r] = Failed(rq, rq.err)]
            /\ UNCHANGED << requestedTasks, heap >>
       ELSE LET G == updateInflightState(Registry, rq.target.targetHost,
                        rq.target.targetPort, rq.sourcePolicyId, ERROR, MessageOf(rq.err))
            IN  /\ req' = [req EXCEPT ![r] =
                             Failed([rq EXCEPT !.hist = Append(rq.hist, ERROR)], rq.err)]
                /\ requestedTasks' = G.tasks
                /\ heap' = Collect(G.heap, G.tasks, Held(req', del, get))
    /\ UNCHANGED << inFlightExports, inFlightDownloads, inFlightUploads, inFlightImports,
                    files, errorFiles, dev, del, get >>
    /\ UNCHANGED << timed, upload >>

----------------------------------------------------------------------------
(* onPost, URL import: download the policy file from a URL and push it to  *)
(* the target device                                                       *)

(* The URLs a submission may name: the first element is the protocol       *)
(* url.parse finds.                                                        *)
UrlHttps == << "https:", "/", "/", "u" >>
UrlHttp  == << "http:", "/", "/", "u" >>
Urls == {UrlHttps, UrlHttp}

protocol(sourceUrl) == sourceUrl[1]

(* new Date().getTime() at the submission                                  *)
Digits == << "0", "1", "2", "3", "4", "5", "6", "7", "8", "9" >>
Stamps == { << Digits[n + 1] >> : n \in 0 .. MaxStamp }

UrlNames == {NameA}

(* The version of the policy a URL serves.                                 *)
VU == "vu"

(* `${sourceUrl}:${policyId}:${timestamp}`                                 *)
UrlDownloadIndex(rq) ==
    rq.sourceUrl \o <<":">> \o rq.sourcePolicyId \o <<":">> \o rq.sourcePolicyTimestamp

(* A url of a scheme that is not one of VALIDDOWNLOADPROTOCOLS.            *)
UrlFtp == << "ftp:", "/", "/", "u" >>
VALIDDOWNLOADPROTOCOLS == {"file:", "http:", "https:"}

(* The list with no test of the scheme.                                    *)
includes_Any(protocols, scheme) == TRUE

(* VALIDDOWNLOADPROTOCOLS.includes(parsedUrl.protocol)                     *)
includes(protocols, scheme) == scheme \in protocols

(* onPost with a url.  Without targetPolicyName the POST is refused.       *)
(* Without a target it is answered with the error as well, and the code    *)
(* goes on: validateTarget resolves with the local device.  In the         *)
(* callback reached once validateTarget resolved: the registry entry,      *)
(* EXPORTING, the executor of downloadPolicyFile, and the 202 answer.      *)
(* The timestamp was taken when the request arrived.                       *)
PostUrl(r, body, devices, timestamp) ==
    /\ micro = << >>
    /\ req[r].pc = "idle"
    /\ \A q \in Reqs : q < r => req[q].pc # "idle"
    /\ LET target == validateTarget(body.targetDevice, devices)
           first == IF body.targetDevice = Null THEN << 404 >> ELSE << >>
       IN
       IF body.targetPolicyName = Null \/ ~ target.ok
       THEN /\ req' = [req EXCEPT ![r] =
                         IF body.targetPolicyName = Null
                         THEN Refused("url", body, devices, 404, "must supply targetPolicyName")
                         ELSE Refused("url", body, devices, 400, "is not a trusted device")]
            /\ heap' = Collect(heap, requestedTasks, Held(req, del, get))
            /\ UNCHANGED << requestedTasks, inFlightDownloads, files, micro >>
       ELSE
       LET sourceUrl == body.url
           targetPolicyName == body.targetPolicyName
           tgt == target.device
           sourcePolicyId == targetPolicyName
           requestIndex == IndexOf(tgt.targetHost, tgt.targetPort, sourcePolicyId)
           G == updateInflightState(
                    SetNew(Registry, requestIndex,
                           NewTask(sourceUrl, targetPolicyName, UNKNOWN, REQUESTED)),
                    tgt.targetHost, tgt.targetPort, sourcePolicyId, EXPORTING, Null)
           rq == [IdleReq EXCEPT
                    !.mode = "url", !.target = tgt, !.sourceUrl = sourceUrl,
                    !.overlaps = InFlight(req),
                    !.targetPolicyName = targetPolicyName,
                    !.sourcePolicyId = sourcePolicyId,
                    !.sourcePolicyName = targetPolicyName,
                    !.sourcePolicyLastChanged = VU,
                    !.sourcePolicyTimestamp = timestamp,
                    !.requestIndex = requestIndex,
                    !.targetVersion = target.targetVersion,
                    !.answered = first \o << 202 >>,
                    !.post = [devices |-> devices, body |-> body],
                    !.hist = << REQUESTED, EXPORTING >>]
           index == UrlDownloadIndex(rq)
       IN  /\ requestedTasks' = G.tasks
           /\ heap' = Collect(G.heap, G.tasks, Held(req, del, get))
           /\ IF index \in DOMAIN inFlightDownloads
              THEN (* join the download in flight *)
                   /\ inFlightDownloads' = [inFlightDownloads EXCEPT ![index] = Append(@, r)]
                   /\ req' = [req EXCEPT ![r] = [rq EXCEPT !.pc = "urlDownloadWait"]]
                   /\ files' = files
                   /\ micro' = micro
              ELSE IF ~ includes(VALIDDOWNLOADPROTOCOLS, protocol(sourceUrl))
              THEN (* a file of that name is unlinked, the semaphore is     *)
                   (* added and removed, the promise rejects                *)
                   /\ inFlightDownloads' = inFlightDownloads
                   /\ req' = [req EXCEPT ![r] =
                                [rq EXCEPT !.pc = "catch",
                                           !.err = Err("extension url must use the following protocols")]]
                   /\ files' = unlinkSync(files, PolicyFile(rq))
                   /\ micro' = << r >>
              ELSE (* a file of that name is replaced                       *)
                   /\ inFlightDownloads' = (index :> << >>) @@ inFlightDownloads
                   /\ req' = [req EXCEPT ![r] = [rq EXCEPT !.pc = "urlDownload"]]
                   /\ files' = createWriteStream(unlinkSync(files, PolicyFile(rq)),
                                                 PolicyFile(rq), r)
                   /\ micro' = micro
    /\ UNCHANGED << inFlightExports, inFlightUploads, inFlightImports, errorFiles, dev,
                    del, get >>
    /\ UNCHANGED << timed, upload >>

(* A POST with a url of a valid scheme that names a trusted target by its  *)
(* UUID and gives the name of the policy.                                  *)
SubmitUrl(r, sourceUrl, targetPolicyName, tgt, timestamp) ==
    PostUrl(r, [policyId |-> Null, policyName |-> Null,
                targetPolicyName |-> targetPolicyName,
                targetDevice |-> UuidOf(tgt), url |-> sourceUrl, sourceDevice |-> Null],
            SameVersionDevices, timestamp)

(* What the download of the owner may end with: the file was received      *)
(* ("ok": a policy the target can import, "invalid": anything else), the   *)
(* server answered with an error status, the request was redirected and    *)
(* the second request failed, or the request failed.                       *)
DownloadOutcomes == {"ok", "invalid", "status", "redirectError", "error"}

UrlDownloadDone(r, outcome) ==
    /\ micro = << >>
    /\ req[r].pc = "urlDownload"
    /\ LET rq == req[r]
           index == UrlDownloadIndex(rq)
           listeners == inFlightDownloads[index]
           policyFile == PolicyFile(rq)
           https == protocol(rq.sourceUrl) = "https:"
           err == Err("error downloading url")
       IN
       IF outcome \in {"ok", "invalid"}
       THEN /\ files' = finish(files, policyFile, r,
                               IF outcome = "ok" THEN "complete" ELSE "invalid")
            /\ req' = Resolve(req, listeners \o << r >>, "download", r, policyFile, "validate")
            /\ micro' = listeners \o << r >>
            /\ inFlightDownloads' = Without(inFlightDownloads, index)
       ELSE IF outcome = "status"
       THEN /\ files' = unlinkSync(files, policyFile)
            /\ req' = Reject(req, listeners \o << r >>, "download", r, err)
            /\ micro' = listeners \o << r >>
            /\ inFlightDownloads' = Without(inFlightDownloads, index)
       ELSE IF ~ existsSync(files, policyFile)
       THEN (* fs.unlinkSync throws in the event handler: nothing is       *)
            (* emitted, the semaphore stays, the promise never settles     *)
            /\ req' = [req EXCEPT ![r].pc = "threw"]
            /\ micro' = << >>
            /\ UNCHANGED << files, inFlightDownloads >>
       ELSE /\ files' = unlinkSync(files, policyFile)
            /\ inFlightDownloads' = Without(inFlightDownloads, index)
            /\ micro' = listeners \o << r >>
            /\ IF ~ https
               THEN req' = Reject(req, listeners \o << r >>, "download", r, err)
               ELSE IF outcome = "redirectError"
               THEN (* the listeners get the file name as the error *)
                    req' = Reject(Reject(req, listeners, "download", r, policyFile),
                                  << r >>, "download", r, err)
               ELSE (* the owner resolves with false *)
                    req' = Resolve(Reject(req, listeners, "download", r, err),
                                   << r >>, "download", r, << "false" >>, "validate")
    /\ UNCHANGED << requestedTasks, heap, inFlightExports, inFlightUploads, inFlightImports,
                    errorFiles, dev, del, get >>
    /\ UNCHANGED << timed, upload >>

(* validateFileIsValidASMPolicy on what the download resolved with, then   *)
(* delete requestedTasks[requestIndex] and the query of the target.  A     *)
(* file that cannot be read as a policy is deleted by                      *)
(* getPolicyVersionFromFile.                                               *)
Validate(r) ==
    /\ micro # << >> /\ Head(micro) = r
    /\ req[r].pc = "validate"
    /\ LET rq == req[r]
           policyFile == rq.out["download"].val
       IN
       IF /\ existsSync(files, policyFile) /\ files[policyFile].state = "complete"
          /\ validateTMOSCompatibility(V13, rq.targetVersion)
       THEN LET G == DeleteKey(Registry, rq.requestIndex)
                rq1 == [rq EXCEPT !.pc = "urlTgtQuery", !.resp = "none",
                                  !.snap = getPoliciesCall(G, rq.target.targetHost,
                                                           rq.target.targetPort, FALSE)]
            IN  /\ requestedTasks' = G.tasks
                /\ req' = [req EXCEPT ![r] = rq1]
                /\ heap' = Collect(G.heap, G.tasks, Held(req', del, get))
                /\ files' = files
       ELSE /\ files' = IF existsSync(files, policyFile) /\ files[policyFile].state = "complete"
                         THEN files ELSE unlinkSync(files, policyFile)
            /\ req' = [req EXCEPT ![r].pc = "catch",
                                  ![r].err = Err("policy XML file TMOS version is not compatible")]
            /\ UNCHANGED << requestedTasks, heap >>
    /\ micro' = IF req'[r].pc = "catch" THEN micro ELSE Tail(micro)
    /\ UNCHANGED << inFlightExports, inFlightDownloads, inFlightUploads, inFlightImports,
                    errorFiles, dev, del, get >>
    /\ UNCHANGED << timed, upload >>

RECURSIVE FindTargetPolicy(_, _)
(* targetPolicies.forEach of the URL import: the last policy of the name   *)
FindTargetPolicy(targetPolicies, rq) ==
    IF targetPolicies = << >> THEN rq
    ELSE LET targetPolicy == Head(targetPolicies) IN
         IF rq.targetPolicyName = targetPolicy.name
         THEN FindTargetPolicy(Tail(targetPolicies),
                               [rq EXCEPT !.needToRemove = TRUE,
                                          !.targetPolicyId = targetPolicy.id])
         ELSE FindTargetPolicy(Tail(targetPolicies), rq)

(* The answer of the target device reaches the URL import.                 *)
UrlTargetQueryDone(r) ==
    /\ micro = << >>
    /\ req[r].pc = "urlTgtQuery"
    /\ req[r].resp # "none"
    /\ IF req[r].resp = "err"
       THEN /\ req' = [req EXCEPT ![r] =
                         [req[r] EXCEPT !.pc = "catch", !.err = Err("query failed"),
                                        !.resp = "none", !.snap = << >>, !.respList = << >>]]
            /\ requestedTasks' = requestedTasks
            /\ heap' = Collect(heap, requestedTasks, Held(req', del, get))
       ELSE LET rq == FindTargetPolicy(
                         getPoliciesResolve(heap, req[r].snap, req[r].respList),
                         [req[r] EXCEPT !.held = HeldOnTarget(req[r].respList, req[r])])
                G  == IF rq.needToRemove
                      THEN updateInflightState(Registry, rq.target.targetHost,
                               rq.target.targetPort, rq.sourcePolicyId, REMOVING, Null)
                      ELSE Registry
            IN  /\ req' = [req EXCEPT ![r] =
                             IF rq.needToRemove
                             THEN [rq EXCEPT !.pc = "remove", !.resp = "none",
                                             !.snap = << >>, !.respList = << >>,
                                             !.nRemove = rq.nRemove + 1,
                                             !.hist = Append(rq.hist, REMOVING)]
                             ELSE [rq EXCEPT !.pc = "import", !.resp = "none",
                                             !.snap = << >>, !.respList = << >>]]
                /\ requestedTasks' = G.tasks
                /\ heap' = Collect(G.heap, G.tasks, Held(req', del, get))
    /\ micro' = IF req'[r].pc = "remove" THEN << >> ELSE << r >>
    /\ UNCHANGED << inFlightExports, inFlightDownloads, inFlightUploads, inFlightImports,
                    files, errorFiles, dev, del, get >>
    /\ UNCHANGED << timed, upload >>

----------------------------------------------------------------------------
(* onDelete                                                                *)

DeleteTargets == RemoteTargets

(* The policy a DELETE names: by id or by name.                            *)
DeleteInputs ==
    { [policyId |-> IdOfName(NameA), policyName |-> Null],
      [policyId |-> Null, policyName |-> NameA],
      [policyId |-> Null, policyName |-> NameB] }

(* The states of the registry entries tracked for the device under the     *)
(* policy id or the policy name.  History kept for the properties: the     *)
(* operation records them when it is called (`called`) and when the list   *)
(* of policies reaches it (`tracked`).                                     *)
TrackedStates(tasks, h, target, policyId, policyName) ==
    { h[tasks[i].oid].state :
        i \in { j \in DOMAIN tasks :
                  /\ startsWith(tasks[j].key,
                                target.targetHost \o <<":">> \o target.targetPort \o <<":">>)
                  /\ \/ (policyId # Null /\ h[tasks[j].oid].id = policyId)
                     \/ (policyName # Null /\ h[tasks[j].oid].name = policyName) } }

(* Whether the registry tracks no request at all for the device.  History  *)
(* kept for the properties (`untracked`): true when it was so both when    *)
(* the operation was called and when the list of policies reached it.      *)
NothingTracked(tasks, target) ==
    \A j \in DOMAIN tasks :
        ~ startsWith(tasks[j].key,
                     target.targetHost \o <<":">> \o target.targetPort \o <<":">>)

(* Whether the device's answer held a policy of the id or of the name.     *)
LiveSelected(items, policyId, policyName) ==
    \E i \in DOMAIN items :
        \/ (policyId # Null /\ items[i].id = policyId)
        \/ (policyName # Null /\ items[i].name = policyName)

(* The callback reached once validateTarget resolved: getPoliciesOnBigIP.  *)
DeleteCall(tgt, inp) ==
    /\ micro = << >>
    /\ del.pc \in {"idle", "done"}
    /\ del' = [IdleOp EXCEPT !.pc = "query", !.target = tgt,
                             !.policyId = inp.policyId, !.policyName = inp.policyName,
                             !.called = TrackedStates(requestedTasks, heap, tgt,
                                                      inp.policyId, inp.policyName),
                             !.untracked = NothingTracked(requestedTasks, tgt),
                             !.snap = getPoliciesCall(Registry, tgt.targetHost,
                                                      tgt.targetPort, FALSE)]
    /\ heap' = Collect(heap, requestedTasks, Held(req, del', get))
    /\ UNCHANGED << requestedTasks, inFlightExports, inFlightDownloads, inFlightUploads,
                    inFlightImports, files, errorFiles, dev, req, micro, get >>
    /\ UNCHANGED << timed, upload >>

DeleteQueryServe(ok) ==
    /\ micro = << >>
    /\ del.pc = "query"
    /\ del.resp = "none"
    /\ del' = [del EXCEPT !.resp = IF ok THEN "ok" ELSE "err",
                          !.respList = IF ok THEN dev[del.target] ELSE << >>]
    /\ UNCHANGED << requestedTasks, heap, inFlightExports, inFlightDownloads, inFlightUploads,
                    inFlightImports, files, errorFiles, dev, req, micro, get >>
    /\ UNCHANGED << timed, upload >>

RECURSIVE SelectPolicy(_, _)
(* policies.forEach of onDelete: the last policy of the id or of the name  *)
SelectPolicy(policies, d) ==
    IF policies = << >> THEN d
    ELSE LET policy == Head(policies) IN
         IF \/ (d.policyId # Null /\ policy.id = d.policyId)
            \/ (d.policyName # Null /\ policy.name = d.policyName)
         THEN SelectPolicy(Tail(policies),
                           [d EXCEPT !.targetPolicyId = policy.id,
                                     !.targetPolicyState = policy.state])
         ELSE SelectPolicy(Tail(policies), d)

(* The list of policies reaches onDelete.                                  *)
DeleteDecide ==
    /\ micro = << >>
    /\ del.pc = "query"
    /\ del.resp # "none"
    /\ LET d0 == [del EXCEPT !.snap = << >>, !.respList = << >>, !.resp = "none",
                             !.tracked = TrackedStates(requestedTasks, heap, del.target,
                                                       del.policyId, del.policyName),
                             !.untracked = /\ del.untracked
                                           /\ NothingTracked(requestedTasks, del.target),
                             !.live = LiveSelected(del.respList, del.policyId,
                                                   del.policyName)]
           d  == SelectPolicy(getPoliciesResolve(heap, del.snap, del.respList), d0)
           inFlightIndex == IndexOf(d.target.targetHost, d.target.targetPort, d.targetPolicyId)
       IN
       IF del.resp = "err"
       THEN /\ del' = [del EXCEPT !.pc = "done", !.status = 500, !.completed = 1,
                                  !.snap = << >>, !.respList = << >>, !.resp = "none"]
            /\ requestedTasks' = requestedTasks
       ELSE IF d.targetPolicyId = Null
       THEN (* the 404 error is built and not thrown *)
            /\ del' = [d EXCEPT !.pc = "done", !.status = 200, !.completed = 1]
            /\ requestedTasks' = requestedTasks
       ELSE IF hasOwnProperty(requestedTasks, inFlightIndex)
       THEN IF heap[OidOf(requestedTasks, inFlightIndex)].state = ERROR
            THEN (* answered here and again by the next reaction *)
                 /\ del' = [d EXCEPT !.pc = "done", !.status = 200, !.completed = 2,
                                     !.changed = TRUE]
                 /\ requestedTasks' = DeleteKey(Registry, inFlightIndex).tasks
            ELSE /\ del' = [d EXCEPT !.pc = "done", !.status = 409, !.completed = 1]
                 /\ requestedTasks' = requestedTasks
       ELSE IF d.targetPolicyState \in {AVAILABLE, INACTIVE}
       THEN /\ del' = [d EXCEPT !.pc = "remove", !.nRemove = 1]
            /\ requestedTasks' = requestedTasks
       ELSE /\ del' = [d EXCEPT !.pc = "done", !.status = 409, !.completed = 1]
            /\ requestedTasks' = requestedTasks
    /\ heap' = Collect(heap, requestedTasks', Held(req, del', get))
    /\ UNCHANGED << inFlightExports, inFlightDownloads, inFlightUploads, inFlightImports,
                    files, errorFiles, dev, req, micro, get >>
    /\ UNCHANGED << timed, upload >>

(* deletePolicyOnBigIP of onDelete, as the device serves it                *)
DeleteRemoveServe(reached) ==
    /\ micro = << >>
    /\ del.pc = "remove"
    /\ del.resp = "none"
    /\ LET ok == reached /\ HoldsId(dev[del.target], del.targetPolicyId)
       IN  /\ del' = [del EXCEPT !.resp = IF ok THEN "ok" ELSE "err"]
           /\ dev' = IF ok THEN [dev EXCEPT ![del.target] = RemovePolicy(@, del.targetPolicyId)]
                     ELSE dev
    /\ UNCHANGED << requestedTasks, heap, inFlightExports, inFlightDownloads, inFlightUploads,
                    inFlightImports, files, errorFiles, req, micro, get >>
    /\ UNCHANGED << timed, upload >>

DeleteRemoveDone ==
    /\ micro = << >>
    /\ del.pc = "remove"
    /\ del.resp # "none"
    /\ del' = [del EXCEPT !.pc = "done", !.resp = "none", !.completed = 1,
                          !.status = IF del.resp = "ok" THEN 200 ELSE 500]
    /\ UNCHANGED << requestedTasks, heap, inFlightExports, inFlightDownloads, inFlightUploads,
                    inFlightImports, files, errorFiles, dev, req, micro, get >>
    /\ UNCHANGED << timed, upload >>

----------------------------------------------------------------------------
(* onGet: the list of policies of a target device                          *)

(* The devices a status query names, and its filter (none).                *)
GetTargets == {TargetA, LocalDevice}

GetInputs == { [policyId |-> Null, policyName |-> Null] }

(* restOperation.body of a filtered query: a policy of the name and of the *)
(* id is pushed twice                                                      *)
RECURSIVE FilterPolicies(_, _, _)
FilterPolicies(policies, policyId, policyName) ==
    IF policies = << >> THEN << >>
    ELSE LET policy == Head(policies) IN
         (IF policyName # Null /\ startsWith(policy.name, policyName) THEN << policy >> ELSE << >>)
         \o (IF policyId # Null /\ policy.id = policyId THEN << policy >> ELSE << >>)
         \o FilterPolicies(Tail(policies), policyId, policyName)

(* What onGet answers once the list of policies reaches it: the status and *)
(* the body.                                                               *)
GetAnswer(g, h) ==
    LET policies == getPoliciesResolve(h, g.snap, g.respList)
        filtered == g.policyName # Null \/ g.policyId # Null
        returnPolicies == IF filtered
                          THEN FilterPolicies(policies, g.policyId, g.policyName)
                          ELSE policies
    IN  IF g.resp = "err" THEN [status |-> 400, body |-> << >>]
        ELSE IF filtered /\ returnPolicies = << >> THEN [status |-> 404, body |-> << >>]
        ELSE [status |-> 200, body |-> returnPolicies]

(* The reaction of the status query of localhost, in the queue `micro`.    *)
GETJOB == 0

(* The callback reached once validateTarget resolved: getPoliciesOnBigIP,  *)
(* which for localhost resolves at once with the tracked entries.          *)
GetCall(tgt, inp) ==
    /\ micro = << >>
    /\ get.pc = "idle"
    /\ LET local == tgt.targetHost = LocalHost IN
       /\ get' = [IdleOp EXCEPT !.pc = "query", !.target = tgt,
                                !.policyId = inp.policyId, !.policyName = inp.policyName,
                                !.resp = IF local THEN "ok" ELSE "none",
                                !.snap = getPoliciesCall(Registry, tgt.targetHost,
                                                         tgt.targetPort, FALSE)]
       /\ micro' = IF local THEN << GETJOB >> ELSE << >>
    /\ heap' = Collect(heap, requestedTasks, Held(req, del, get'))
    /\ UNCHANGED << requestedTasks, inFlightExports, inFlightDownloads, inFlightUploads,
                    inFlightImports, files, errorFiles, dev, req, del >>
    /\ UNCHANGED << timed, upload >>

GetQueryServe(ok) ==
    /\ micro = << >>
    /\ get.pc = "query"
    /\ get.resp = "none"
    /\ get' = [get EXCEPT !.resp = IF ok THEN "ok" ELSE "err",
                          !.respList = IF ok THEN dev[get.target] ELSE << >>]
    /\ UNCHANGED << requestedTasks, heap, inFlightExports, inFlightDownloads, inFlightUploads,
                    inFlightImports, files, errorFiles, dev, req, micro, del >>
    /\ UNCHANGED << timed, upload >>

(* The list of policies reaches onGet: the operation is answered with      *)
(* GetAnswer and is over.                                                  *)
GetDone ==
    /\ get.pc = "query"
    /\ get.resp # "none"
    /\ micro = IF get.target.targetHost = LocalHost THEN << GETJOB >> ELSE << >>
    /\ micro' = << >>
    /\ get' = IdleOp
    /\ heap' = Collect(heap, requestedTasks, Held(req, del, get'))
    /\ UNCHANGED << requestedTasks, inFlightExports, inFlightDownloads, inFlightUploads,
                    inFlightImports, files, errorFiles, dev, req, del >>
    /\ UNCHANGED << timed, upload >>

----------------------------------------------------------------------------
(* pollTaskUntilFinished                                                   *)

(* resolve or reject of the promise of the call: a promise settles once.   *)
Settle(p, state, kind, value) ==
    IF p.state # "pending" THEN p
    ELSE [ p EXCEPT !.state = state, !.kind = kind, !.value = value,
                    !.settledAt = clock, !.pollsAtSettle = p.polls ]

(* The reaction without its FAILURE branch.                                *)
Branch_IgnoresFailure(responseBody) ==
    IF ~responseBody.hasStatus THEN "none"
    ELSE IF responseBody.status = FINISHED THEN "resolve"
    ELSE "wait"

(* What the reaction to a response does with the body.                     *)
Branch(responseBody) ==
    IF ~responseBody.hasStatus THEN "none"
    ELSE IF responseBody.status = FINISHED THEN "resolve"
    ELSE IF responseBody.status = FAILURE THEN "reject"
    ELSE "wait"

returnData(responseBody) ==
    IF responseBody.hasRef THEN splitFirst(basename(responseBody.link)) ELSE responseBody

(* The test made for the time at which the next wait would end.           *)
StillInTime_NextWait(now, stop) == now + pollDelay < stop

(* The test the timer's reaction makes before it polls again.              *)
StillInTime(now, stop) == now < stop

(* poll(): a status request goes out.                                      *)
poll(p) == [ p EXCEPT !.next = "request", !.polls = p.polls + 1, !.due = clock ]

Timeouts == {0, 3 * Quantum, 4 * Quantum}

(* The call: the deadline is fixed and the first poll is left to           *)
(* setImmediate.                                                           *)
PollCall(timeout, job) ==
    LET t == IF timeout = 0 THEN TASKTIMEOUT ELSE timeout
    IN  /\ poller.state = "idle"
        /\ clock <= MaxStart
        /\ clock + t <= MaxTime
        /\ poller' = [ IdlePoller EXCEPT !.state = "pending", !.next = "immediate",
                                         !.timeout = t, !.start = clock, !.stop = clock + t,
                                         !.due = clock, !.job = job ]
        /\ UNCHANGED << clock, cache >>
        /\ UNCHANGED untimed

(* The setImmediate callback.                                              *)
PollIssue ==
    /\ poller.next = "immediate"
    /\ poller' = poll(poller)
    /\ UNCHANGED << clock, cache >>
    /\ UNCHANGED untimed

RequestOutcomes == {"body", "error", "silent"}

(* getTaskStatus settles, or stays unsettled when getToken rejects, and    *)
(* the reaction of the poller runs.                                        *)
PollServe(outcome) ==
    /\ poller.next = "request"
    /\ LET responseBody == ResponseBody(poller.job, poller.polls)
           branch == Branch(responseBody)
           p == [ poller EXCEPT !.next = "none", !.last = responseBody ]
       IN  poller' =
             IF outcome = "silent" THEN [ poller EXCEPT !.next = "none", !.unanswered = TRUE ]
             ELSE IF outcome = "error"
               THEN Settle([ poller EXCEPT !.next = "none" ], "rejected", "error",
                           Err(<< "s", "t", "a", "t", "u", "s" >>))
             ELSE IF branch = "resolve"
               THEN Settle(p, "resolved", "result", returnData(responseBody))
             ELSE IF branch = "reject"
               THEN Settle(p, "rejected", "failure",
                           Err(<< "Task failed returning ", responseBody >>))
             ELSE IF branch = "wait"
               THEN [ p EXCEPT !.next = "timer", !.due = clock + pollDelay ]
             ELSE [ p EXCEPT !.unanswered = TRUE ]
    /\ UNCHANGED << clock, cache >>
    /\ UNCHANGED untimed

(* The timer of wait(pollDelay) fires, at its due time or later.           *)
WaitDone ==
    /\ poller.next = "timer"
    /\ clock >= poller.due \/ clock = MaxTime
    /\ poller' =
         IF StillInTime(clock, poller.stop) THEN poll(poller)
         ELSE Settle([ poller EXCEPT !.next = "none" ], "rejected", "timeout",
                     Err(<< "policy task did not reach COMPLETED status within timeout. Instead returned: ",
                            poller.last >>))
    /\ UNCHANGED << clock, cache >>
    /\ UNCHANGED untimed

(* Time passes.                                                            *)
Advance(limit) ==
    /\ clock < limit
    /\ clock' = IF clock + Quantum > limit THEN limit ELSE clock + Quantum

Tick ==
    /\ Advance(MaxTime)
    /\ \/ poller.state = "idle" /\ clock < MaxStart
       \/ poller.next # "none" /\ clock < poller.due + MaxLate
    /\ UNCHANGED << poller, cache >>
    /\ UNCHANGED untimed

----------------------------------------------------------------------------
(* clearPolicyFileCache                                                    *)

POLICYFILEPREFIX == << "e", "x", "p" >>

(* The files the sweep meets: two staged policy files and a file of        *)
(* another kind.                                                           *)
SweepFiles ==
    { resolvePolicyFileName(<< "A" >>, << "1" >>),
      resolvePolicyFileName(<< "B" >>, << "1" >>),
      << "e", "r", "r" >> }

(* The ctimes of the files that are there when the worker starts, and the  *)
(* times at which it starts, chosen around the expiry of these files.      *)
Ctimes == {0, 1}
SweepTimes == { POLICYCACHETIME + d : d \in {0 - 100, 0 - 99, 0, 1} }
SweepLimit == POLICYCACHETIME + MaxLate

Directories ==
    UNION { [ D -> Ctimes ] : D \in SUBSET SweepFiles }

(* The test of the stat callback with the whole cache time.                *)
Expired_WholeTime(curTime, ctime) == curTime > ctime + POLICYCACHETIME

(* The test of the stat callback: curTime > expireTime.                    *)
Expired(curTime, ctime) == curTime > ctime + (POLICYCACHETIME - 100)

(* readdirSync and one fs.stat for each file with the prefix.              *)
Sweep ==
    /\ cache.pending = {}
    /\ cache' = [ cache EXCEPT !.pending = { f \in DOMAIN cache.dir : startsWith(f, POLICYFILEPREFIX) },
                               !.sweptAt = clock,
                               !.seen = EmptyMap ]
    /\ UNCHANGED << clock, poller >>
    /\ UNCHANGED untimed

(* The callback of fs.stat for a file.                                     *)
StatDone(file) ==
    /\ file \in cache.pending
    /\ LET err == file \notin DOMAIN cache.dir
           dir == IF ~err /\ Expired(clock, cache.dir[file])
                  THEN unlinkSync(cache.dir, file) ELSE cache.dir
       IN  cache' = [ cache EXCEPT
                        !.pending = cache.pending \ {file},
                        !.dir = dir,
                        !.seen = IF err THEN cache.seen
                                 ELSE (file :> [ age |-> clock - cache.dir[file],
                                                 deleted |-> file \notin DOMAIN dir ]) @@ cache.seen ]
    /\ UNCHANGED << clock, poller >>
    /\ UNCHANGED untimed

(* A pipeline stages a file, or stages it again, while the sweep is out.   *)
Stage(file) ==
    /\ cache.pending # {}
    /\ startsWith(file, POLICYFILEPREFIX)
    /\ IF file \in DOMAIN cache.dir THEN cache.dir[file] < clock ELSE TRUE
    /\ cache' = [ cache EXCEPT !.dir = (file :> clock) @@ cache.dir ]
    /\ UNCHANGED << clock, poller >>
    /\ UNCHANGED untimed

(* A pipeline unlinks the file of a download that failed.                  *)
Unstage(file) ==
    /\ file \in cache.pending
    /\ file \in DOMAIN cache.dir
    /\ cache' = [ cache EXCEPT !.dir = unlinkSync(cache.dir, file) ]
    /\ UNCHANGED << clock, poller >>
    /\ UNCHANGED untimed

(* The callback of fs.stat for an expired file whose fs.unlinkSync throws   *)
(* (the file went after the stat, or may not be unlinked).  Nothing in the *)
(* callback catches the exception: it reaches the event loop, where the    *)
(* process either goes on (`exits` false: a handler of the host took it)   *)
(* or ends, and then no stat callback still out is run.                    *)
UnlinkThrows(file, exits) ==
    /\ file \in cache.pending
    /\ file \in DOMAIN cache.dir
    /\ Expired(clock, cache.dir[file])
    /\ cache' = [ cache EXCEPT
                    !.pending = IF exits THEN {} ELSE cache.pending \ {file},
                    !.seen = (file :> [ age |-> clock - cache.dir[file],
                                        deleted |-> FALSE ]) @@ cache.seen ]
    /\ UNCHANGED << clock, poller >>
    /\ UNCHANGED untimed

SweepTick ==
    /\ Advance(SweepLimit)
    /\ UNCHANGED << poller, cache >>
    /\ UNCHANGED untimed

(* The files an export of a policy of the source stages.                   *)
ExportedFiles ==
    { resolvePolicyFileName(SourcePolicies[i].id, getTime(SourcePolicies[i].lastChanged)) :
        i \in DOMAIN SourcePolicies }

(* The sweep unlinks a staged file that is old enough; a file a pipeline   *)
(* is still writing is not.                                                *)
Evict(file) ==
    /\ micro = << >>
    /\ file \in DOMAIN files
    /\ files[file].state # "partial"
    /\ files' = unlinkSync(files, file)
    /\ cache' = [ cache EXCEPT !.seen = (file :> [ age |-> POLICYCACHETIME, deleted |-> TRUE ])
                                         @@ cache.seen ]
    /\ UNCHANGED << requestedTasks, heap, inFlightExports, inFlightDownloads, inFlightUploads,
                    inFlightImports, errorFiles, dev, req, micro, del, get, clock, poller,
                    upload >>

----------------------------------------------------------------------------

(* The steps of the pipelines, of either kind of submission.               *)
TargetSteps(r) ==
    \/ \E ok \in BOOLEAN : TargetQueryServe(r, ok)
    \/ \E reached \in BOOLEAN : RemoveServe(r, reached)
    \/ RemoveDone(r)

ImportSteps(r) ==
    \/ ImportStart(r)
    \/ \E ok \in BOOLEAN : UploadDone(r, ok)
    \/ \E ok \in BOOLEAN : ImportJobServe(r, ok)
    \/ ImportJobDone(r)
    \/ \E ok \in BOOLEAN : ApplyJobServe(r, ok)
    \/ ApplyJobDone(r)
    \/ Applied(r)
    \/ Catch(r)

NodeSteps(r) ==
    \/ \E ok \in BOOLEAN : SourceQueryDone(r, ok)
    \/ TargetQueryDone(r)
    \/ ExportStart(r)
    \/ \E ok \in BOOLEAN : ExportJobDone(r, ok)
    \/ \E ok \in BOOLEAN : DownloadDone(r, ok)

UrlSteps(r) ==
    \/ \E outcome \in DownloadOutcomes : UrlDownloadDone(r, outcome)
    \/ Validate(r)
    \/ UrlTargetQueryDone(r)

DeleteSteps ==
    \/ \E tgt \in DeleteTargets, inp \in DeleteInputs : DeleteCall(tgt, inp)
    \/ \E ok \in BOOLEAN : DeleteQueryServe(ok)
    \/ DeleteDecide
    \/ \E reached \in BOOLEAN : DeleteRemoveServe(reached)
    \/ DeleteRemoveDone

GetSteps ==
    \/ \E tgt \in GetTargets, inp \in GetInputs : GetCall(tgt, inp)
    \/ \E ok \in BOOLEAN : GetQueryServe(ok)
    \/ GetDone

(* Node to node replication: concurrent submissions, every remote call may *)
(* fail.                                                                   *)
Next ==
    \/ \E r \in Reqs, inp \in NodeInputs, tgt \in PostTargets : SubmitNode(r, inp, tgt)
    \/ \E r \in Reqs : NodeSteps(r) \/ TargetSteps(r) \/ ImportSteps(r)

Spec == Init /\ [][Next]_vars

(* URL import: concurrent submissions, every remote call may fail.         *)
NextUrl ==
    \/ \E r \in Reqs, sourceUrl \in Urls, name \in UrlNames, tgt \in PostTargets,
          timestamp \in Stamps : SubmitUrl(r, sourceUrl, name, tgt, timestamp)
    \/ \E r \in Reqs : UrlSteps(r) \/ TargetSteps(r) \/ ImportSteps(r) \/ UploadThrew(r)

SpecUrl == Init /\ [][NextUrl]_vars

(* One submission of either kind, every remote call may fail, and DELETE   *)
(* operations.                                                             *)
NextDelete ==
    \/ \E inp \in NodeInputs, tgt \in PostTargets : SubmitNode(1, inp, tgt)
    \/ \E sourceUrl \in Urls, name \in UrlNames, tgt \in PostTargets, timestamp \in Stamps :
          SubmitUrl(1, sourceUrl, name, tgt, timestamp)
    \/ \E r \in Reqs : NodeSteps(r) \/ UrlSteps(r) \/ TargetSteps(r) \/ ImportSteps(r)
    \/ DeleteSteps

SpecDelete == Init /\ [][NextDelete]_vars

(* Concurrent node to node submissions whose remote calls succeed, and     *)
(* status queries.                                                         *)
NextGet ==
    \/ \E r \in Reqs, inp \in NodeInputs, tgt \in PostTargets : SubmitNode(r, inp, tgt)
    \/ \E r \in Reqs :
          \/ SourceQueryDone(r, TRUE)
          \/ TargetQueryServe(r, TRUE)
          \/ TargetQueryDone(r)
          \/ RemoveServe(r, TRUE)
          \/ RemoveDone(r)
          \/ ExportStart(r)
          \/ ExportJobDone(r, TRUE)
          \/ DownloadDone(r, TRUE)
          \/ ImportStart(r)
          \/ UploadDone(r, TRUE)
          \/ ImportJobServe(r, TRUE)
          \/ ImportJobDone(r)
          \/ ApplyJobServe(r, TRUE)
          \/ ApplyJobDone(r)
          \/ Applied(r)
          \/ Catch(r)
    \/ GetSteps

SpecGet == Init /\ [][NextGet]_vars

(* The bodies a POST may carry: the source and the target named by host   *)
(* or UUID, left out, 'localhost' or a name no trusted device has; a       *)
(* policy the source holds or one it does not hold; a url of a valid or an *)
(* invalid scheme, with or without the name for the policy.                *)
DeviceNames == {Null, LocalHost, Untrusted}

NodeBodies ==
    [ policyId : {Null}, policyName : Names, targetPolicyName : {Null},
      targetDevice : DeviceNames \cup {UuidOf(TargetA)},
      url : {Null},
      sourceDevice : {Null, Source.targetHost, Untrusted} ]

UrlBodies ==
    [ policyId : {Null}, policyName : {Null}, targetPolicyName : {Null, NameA},
      targetDevice : DeviceNames \cup {UuidOf(TargetA)},
      url : Urls \cup {UrlFtp},
      sourceDevice : {Null} ]

(* The request of the single POST.                                         *)
FirstReq == {1}

(* One POST of either kind with any body, to devices of any versions;      *)
(* every remote call may fail.                                             *)
NextPost ==
    \/ \E r \in FirstReq, body \in NodeBodies, devices \in DeviceTables :
          PostNode(r, body, devices)
    \/ \E r \in FirstReq, body \in UrlBodies, devices \in DeviceTables, timestamp \in Stamps :
          PostUrl(r, body, devices, timestamp)
    \/ \E r \in FirstReq : NodeSteps(r) \/ UrlSteps(r) \/ TargetSteps(r) \/ ImportSteps(r)

SpecPost == Init /\ [][NextPost]_vars

(* Node to node replication while the sweep of the file cache may evict a *)
(* staged file.                                                            *)
NextEvict ==
    \/ \E r \in Reqs, inp \in NodeInputs, tgt \in PostTargets : SubmitNode(r, inp, tgt)
    \/ \E r \in Reqs : NodeSteps(r) \/ TargetSteps(r) \/ ImportSteps(r)
    \/ \E file \in ExportedFiles : Evict(file)

SpecEvict == Init /\ [][NextEvict]_vars

(* The millisecond in which the imports of policy a arrive, and the file   *)
(* they stage.                                                             *)
ArrivedAt == << Digits[2] >>

ImportedFile == resolvePolicyFileName(NameA, ArrivedAt)

(* URL imports of policy a to the first target while the sweep may evict   *)
(* the staged file: an owner whose file is gone fails in the executor of   *)
(* its upload, and a request that finds an upload of its key in flight     *)
(* waits for it.                                                           *)
NextRetry ==
    \/ \E r \in Reqs : SubmitUrl(r, UrlHttps, NameA, TargetA, ArrivedAt)
    \/ \E r \in Reqs : UrlSteps(r) \/ TargetSteps(r) \/ ImportSteps(r)
    \/ \E r \in Reqs : UploadThrew(r) \/ UploadPoll(r)
    \/ Evict(ImportedFile)

(* The event loop runs every reaction and every timer that is ready, and   *)
(* every remote call is answered or fails.                                 *)
SpecRetry ==
    /\ Init
    /\ [][NextRetry]_vars
    /\ \A r \in Reqs :
          WF_vars(UrlSteps(r) \/ TargetSteps(r) \/ ImportSteps(r)
                    \/ UploadThrew(r) \/ UploadPoll(r))

(* The sweep of onStart over a directory that holds files already.        *)
InitSweep ==
    /\ InitUntimed
    /\ dev = [ t \in RemoteTargets |-> << >> ]
    /\ poller = IdlePoller
    /\ clock \in SweepTimes
    /\ \E dir \in Directories : cache = [ IdleCache EXCEPT !.dir = dir ]

NextSweep ==
    \/ Sweep
    \/ \E file \in SweepFiles : StatDone(file)
    \/ \E file \in SweepFiles : Stage(file)
    \/ \E file \in SweepFiles : Unstage(file)
    \/ SweepTick

SpecSweep == InitSweep /\ [][NextSweep]_vars

(* The sweep, with files that cannot be unlinked.                          *)
NextSweepErr ==
    \/ NextSweep
    \/ \E file \in SweepFiles, exits \in BOOLEAN : UnlinkThrows(file, exits)

SpecSweepErr == InitSweep /\ [][NextSweepErr]_vars

(* One pollTaskUntilFinished call on the clock.                            *)
NextPoll ==
    \/ \E timeout \in Timeouts, job \in Jobs : PollCall(timeout, job)
    \/ PollIssue
    \/ \E outcome \in RequestOutcomes : PollServe(outcome)
    \/ WaitDone
    \/ Tick

(* The worker after construction, its devices holding no policy.          *)
InitPoll ==
    /\ Init
    /\ dev = [ t \in RemoteTargets |-> << >> ]

(* The event loop runs a callback that is ready, a request that is out is  *)
(* served (or found unanswered), and time passes while something is        *)
(* pending.                                                                *)
SpecPoll ==
    /\ InitPoll
    /\ [][NextPoll]_vars
    /\ WF_vars(PollIssue)
    /\ WF_vars(\E outcome \in RequestOutcomes : PollServe(outcome))
    /\ WF_vars(WaitDone)
    /\ WF_vars(Tick)

----------------------------------------------------------------------------
(* uploadPolicyFileToBigIP, chunk by chunk                                 *)

(* The sizes in bytes of a staged file, and the sizes of a chunk.  The     *)
(* code's CHUNK_SIZE is 512000; the chunks of the model are scaled down.   *)
MaxSize == 6
MaxChunk == 3

FileSizes == 0 .. MaxSize
ChunkSizes == 1 .. MaxChunk

(* The status codes the target answers a chunk with.                       *)
StatusCodes == {200, 399, 400}

(* The string JavaScript makes of an integer in a concatenation.           *)
RECURSIVE NumberToString(_)
NumberToString(n) ==
    IF n < 0 THEN << "-" >> \o NumberToString(0 - n)
    ELSE IF n < 10 THEN << Digits[n + 1] >>
    ELSE NumberToString(n \div 10) \o << Digits[(n % 10) + 1] >>

(* The Content-Range header of uploadPart: start-end/size                  *)
ContentRange(start, end, size) ==
    NumberToString(start) \o << "-" >> \o NumberToString(end) \o << "/" >>
        \o NumberToString(size)

(* The Content-Length header of uploadPart.                                *)
ContentLength(start, end) == (end - start) + 1

(* A promise whose resolve overrides an earlier reject.                    *)
resolve_Overrides(state) == "resolved"

(* resolve and reject of the promise the call returns: a promise settles   *)
(* once.                                                                   *)
resolve(state) == IF state = "pending" THEN "resolved" ELSE state

reject(state) == IF state = "pending" THEN "rejected" ELSE state

(* The end of the first chunk, from the setImmediate callback.             *)
firstEnd(CHUNK_SIZE, size) == IF CHUNK_SIZE < size THEN CHUNK_SIZE - 1 ELSE size - 1

(* A next chunk that starts on the last byte of the one before.            *)
nextStart_Overlap(start, CHUNK_SIZE) == (start + CHUNK_SIZE) - 1

nextStart(start, CHUNK_SIZE) == start + CHUNK_SIZE

nextEnd(end, CHUNK_SIZE, size) ==
    IF end + CHUNK_SIZE > size - 1 THEN size - 1 ELSE end + CHUNK_SIZE

(* uploadPart(start, end): the headers are made and getToken is called.    *)
uploadPart(u, start, end) == [u EXCEPT !.pc = "token", !.start = start, !.end = end]

(* The three places that give the upload up: the semaphore is removed, the *)
(* error file written, the promise rejected.                               *)
GiveUp(u) == [u EXCEPT !.inFlight = FALSE, !.errorFile = TRUE, !.state = reject(u.state)]

UploadOnly == /\ UNCHANGED << requestedTasks, heap, inFlightExports, inFlightDownloads,
                              inFlightUploads, inFlightImports, files, errorFiles, dev, req,
                              micro, del, get >>
              /\ UNCHANGED timed

(* The executor of the promise, for an owner whose file exists: the        *)
(* semaphore is set, an error file of an earlier attempt removed, the      *)
(* file's size read, the first chunk left to setImmediate.                 *)
UploadCall(size, CHUNK_SIZE) ==
    /\ upload.pc = "idle"
    /\ upload' = [IdleUpload EXCEPT !.pc = "immediate", !.state = "pending",
                                    !.size = size, !.CHUNK_SIZE = CHUNK_SIZE,
                                    !.inFlight = TRUE]
    /\ UploadOnly

(* The setImmediate callback.                                              *)
UploadFirst ==
    /\ upload.pc = "immediate"
    /\ upload' = uploadPart(upload, 0, firstEnd(upload.CHUNK_SIZE, upload.size))
    /\ UploadOnly

(* getToken settled: the chunk request is made with its headers and the    *)
(* bytes start to end of the file piped into it, or the catch gives up.    *)
TokenDone(ok) ==
    /\ upload.pc = "token"
    /\ upload' =
         IF ok
         THEN [upload EXCEPT !.pc = "request",
                 !.sent = Append(@, [start |-> upload.start, end |-> upload.end,
                                     range |-> ContentRange(upload.start, upload.end,
                                                            upload.size),
                                     length |-> ContentLength(upload.start, upload.end)])]
         ELSE [GiveUp(upload) EXCEPT !.pc = "stopped"]
    /\ UploadOnly

(* The response callback of a chunk request.  A status above 399 gives the *)
(* upload up, and the callback goes on: it resolves after the last chunk   *)
(* and sends the next chunk after any other.                               *)
ChunkAnswered(statusCode) ==
    /\ upload.pc = "request"
    /\ LET u0 == [upload EXCEPT !.answers = Append(@, [status |-> statusCode,
                                                      end |-> upload.end])]
           u1 == IF statusCode > 399 THEN GiveUp(u0) ELSE u0
       IN  upload' =
             IF u1.end = u1.size - 1
             THEN [u1 EXCEPT !.pc = "stopped", !.inFlight = FALSE,
                             !.state = resolve(u1.state)]
             ELSE uploadPart(u1, nextStart(u1.start, u1.CHUNK_SIZE),
                             nextEnd(u1.end, u1.CHUNK_SIZE, u1.size))
    /\ UploadOnly

(* The 'error' event of a chunk request.                                   *)
ChunkError ==
    /\ upload.pc = "request"
    /\ upload' = [GiveUp([upload EXCEPT !.answers = Append(@, [status |-> 0,
                                                               end |-> upload.end])])
                    EXCEPT !.pc = "stopped"]
    /\ UploadOnly

(* Both source devices.                                                    *)
Sources == {Source, SourceB}

TwoSourceDevices ==
    SameVersionDevices \o
    << [targetHost |-> SourceB.targetHost, targetPort |-> SourceB.targetPort,
        targetVersion |-> V13, targetUUID |-> UuidOf(SourceB)] >>

(* A POST that names policy a of a source device by its name.              *)
SubmitFrom(r, src, tgt) ==
    PostNode(r, [policyId |-> Null, policyName |-> NameA, targetPolicyName |-> Null,
                 targetDevice |-> UuidOf(tgt), url |-> Null,
                 sourceDevice |-> src.targetHost],
             TwoSourceDevices)

(* Node to node replication from either source device.                     *)
NextSources ==
    \/ \E r \in Reqs, src \in Sources, tgt \in PostTargets : SubmitFrom(r, src, tgt)
    \/ \E r \in Reqs : NodeSteps(r) \/ TargetSteps(r) \/ ImportSteps(r)

SpecSources == Init /\ [][NextSources]_vars

(* A POST that names policy a of the second source device by its id and    *)
(* policy b by its name.                                                   *)
SubmitBoth(r, tgt) ==
    PostNode(r, [policyId |-> IdOfName(NameA), policyName |-> NameB,
                 targetPolicyName |-> Null, targetDevice |-> UuidOf(tgt), url |-> Null,
                 sourceDevice |-> SourceB.targetHost],
             TwoSourceDevices)

(* Node to node replication of submissions that match two policies.        *)
NextBoth ==
    \/ \E r \in Reqs, tgt \in PostTargets : SubmitBoth(r, tgt)
    \/ \E r \in Reqs : NodeSteps(r) \/ TargetSteps(r) \/ ImportSteps(r)

SpecBoth == Init /\ [][NextBoth]_vars

(* One upload of a file of any size in chunks of any size: the token and   *)
(* every chunk request may fail.                                           *)
NextUpload ==
    \/ \E size \in FileSizes, CHUNK_SIZE \in ChunkSizes : UploadCall(size, CHUNK_SIZE)
    \/ UploadFirst
    \/ \E ok \in BOOLEAN : TokenDone(ok)
    \/ \E statusCode \in StatusCodes : ChunkAnswered(statusCode)
    \/ ChunkError

SpecUpload == Init /\ [][NextUpload]_vars


----------------------------------------------------------------------------
(* Properties                                                              *)

Settled(r) == req[r].pc \in {"done", "failed"}

(* Two submissions of the same replication: the same key of the registry   *)
(* and the same name on the target.                                        *)
SameKey(r, q) ==
    /\ req[r].requestIndex # Null
    /\ req[r].requestIndex = req[q].requestIndex
    /\ req[r].targetPolicyName = req[q].targetPolicyName

(* C1: of two concurrent submissions of the same (target, policy id) that  *)
(* both end successfully, the upload, the import job and the apply job are *)
(* executed at most once between them.                                     *)
C1_WorkOnce ==
    \A r, q \in Reqs :
        (/\ r # q
         /\ q \in req[r].overlaps
         /\ SameKey(r, q)
         /\ req[r].pc = "done"
         /\ req[q].pc = "done")
        => /\ req[r].nUpload + req[q].nUpload <= 1
           /\ req[r].nImport + req[q].nImport <= 1
           /\ req[r].nApply + req[q].nApply <= 1

(* C2: a caller that joined a coalesced operation in flight settles as the *)
(* owner of the operation does: resolved with the same value, or rejected  *)
(* with the same error.                                                    *)
C2_SameOutcome ==
    \A q \in Reqs, op \in CoalescedOps :
        LET o == req[q].out[op] IN
        (o.kind # "none" /\ o.owner # q)
        => /\ req[o.owner].out[op].kind = o.kind
           /\ req[o.owner].out[op].val = o.val

(* C3: an accepted request of which a stage failed has a registry entry in *)
(* state ERROR that records the message of the error.                      *)
C3_FailureRecorded ==
    \A r \in Reqs :
        (req[r].pc = "failed" /\ req[r].requestIndex # Null)
        => \E i \in DOMAIN requestedTasks :
              /\ heap[requestedTasks[i].oid].state = ERROR
              /\ heap[requestedTasks[i].oid].errMessage = MessageOf(req[r].err)

(* C4: a single node to node replication that succeeds to a target not     *)
(* holding the policy gave its registry entry the states REQUESTED,        *)
(* EXPORTING, DOWNLOADING, UPLOADING, IMPORTING, APPLYING in that order,   *)
(* and the entry is then removed.                                          *)
C4_StateSequence ==
    (/\ req[1].pc = "done"
     /\ req[1].mode = "node"
     /\ req[1].nApply = 1
     /\ req[1].held = "none"
     /\ \A q \in Reqs \ {1} : req[q].pc = "idle")
    => /\ SelectSeq(req[1].hist, LAMBDA st : st # FINISHED)
            = << REQUESTED, EXPORTING, DOWNLOADING, UPLOADING, IMPORTING, APPLYING >>
       /\ ~ hasOwnProperty(requestedTasks, req[1].requestIndex)

C6_StaleReplaced ==
    \A r \in Reqs : req[r].held = "stale" =>
        /\ (\E i \in DOMAIN req[r].hist : req[r].hist[i] = UPLOADING)
           => \E i, j \in DOMAIN req[r].hist :
                 i < j /\ req[r].hist[i] = REMOVING /\ req[r].hist[j] = UPLOADING
        /\ req[r].pc = "applied"
           => /\ \E i \in DOMAIN dev[req[r].target] :
                    /\ dev[req[r].target][i].name = req[r].targetPolicyName
                    /\ dev[req[r].target][i].lastChanged = req[r].sourcePolicyLastChanged
              /\ \A i \in DOMAIN dev[req[r].target] :
                    dev[req[r].target][i].name = req[r].targetPolicyName
                    => dev[req[r].target][i].lastChanged = req[r].sourcePolicyLastChanged

(* A DELETE that was answered by its own decision or went on to the remote *)
(* delete (not one that failed on the policy query).                       *)
Decided == del.pc \in {"remove", "done"} /\ del.status # 500

NonError(S) == S # {} /\ ERROR \notin S

(* C7: a DELETE, by policyId or by policyName, of a policy whose request   *)
(* is tracked for the target in a state other than ERROR, when the DELETE  *)
(* is called and when it decides, is answered 409, issues no remote delete *)
(* and leaves the registry as it is.                                       *)
C7_ConflictWhileTracked ==
    (Decided /\ NonError(del.called) /\ NonError(del.tracked))
    => /\ del.nRemove = 0
       /\ ~ del.changed
       /\ del.pc = "done"
       /\ del.status = 409

(* C8: a DELETE of a policy whose request is tracked for the target in     *)
(* state ERROR removes the entry, is answered 200 and issues no remote     *)
(* delete; a DELETE of a policy the target holds, with nothing tracked for *)
(* the target, issues the remote delete.                                   *)
C8_ClearOrRemove ==
    /\ (Decided /\ del.called = {ERROR} /\ del.tracked = {ERROR})
       => /\ del.nRemove = 0
          /\ del.changed
          /\ del.pc = "done"
          /\ del.status = 200
    /\ (Decided /\ del.untracked /\ del.live)
       => del.nRemove = 1

(* A status query whose list of policies is about to reach onGet.          *)
Answered == get.pc = "query" /\ get.resp = "ok"

TrackedFor(target, key) ==
    startsWith(key, target.targetHost \o <<":">> \o target.targetPort \o <<":">>)

(* C9: the tracked requests in the answer to a status query for a remote   *)
(* target T are tracked for T: their key is T's host and port.             *)
C9_OnlyOwnTarget ==
    (Answered /\ get.target.targetHost # LocalHost)
    => \A i \in DOMAIN get.snap : TrackedFor(get.target, get.snap[i].key)

Ids == { IdOfName(n) : n \in Names }

(* The registry tracks the policy id for the queried target with the same  *)
(* entry when the status query was called and when it is answered.         *)
TrackedThroughout(id) ==
    LET inFlightIndex == IndexOf(get.target.targetHost, get.target.targetPort, id) IN
    /\ hasOwnProperty(requestedTasks, inFlightIndex)
    /\ heap[OidOf(requestedTasks, inFlightIndex)].id = id
    /\ \E i \in DOMAIN get.snap :
          /\ get.snap[i].key = inFlightIndex
          /\ get.snap[i].oid = OidOf(requestedTasks, inFlightIndex)

(* C10: in the answer to a status query, a policy id both tracked for the  *)
(* target and reported by the target appears once, and not in state        *)
(* AVAILABLE or INACTIVE.                                                  *)
C10_TrackedOnce ==
    Answered =>
        LET body == GetAnswer(get, heap).body IN
        \A id \in Ids :
            (/\ TrackedThroughout(id)
             /\ \E i \in DOMAIN get.respList : get.respList[i].id = id)
            => /\ Cardinality({ i \in DOMAIN body : body[i].id = id }) = 1
               /\ \A i \in DOMAIN body :
                     body[i].id = id => body[i].state \notin {AVAILABLE, INACTIVE}

----------------------------------------------------------------------------
(* The poller                                                              *)

TimedOut == poller.state = "rejected" /\ poller.kind = "timeout"

(* C11: a pollTaskUntilFinished call on a task whose status never becomes  *)
(* COMPLETED or FAILURE is rejected with the timeout error, provided its   *)
(* status requests are answered; the timeout rejection comes at a time of  *)
(* start + timeout or later, never earlier, and such a call is never       *)
(* resolved nor rejected for a failed task.                                *)
C11_TimeoutNotEarlier ==
    /\ [](TimedOut => poller.settledAt >= poller.start + poller.timeout)
    /\ [](poller.job.final = "never" => poller.state # "resolved" /\ poller.kind # "failure")
    /\ (poller.state = "pending" /\ poller.job.final = "never")
          ~> (TimedOut \/ poller.kind = "error" \/ poller.unanswered)

(* A never-ending task polled more than once, timed out exactly at the     *)
(* deadline.                                                               *)
C11_Witness ==
    /\ TimedOut
    /\ poller.job.final = "never"
    /\ poller.polls >= 2
    /\ poller.settledAt = poller.start + poller.timeout

(* The poll that first sees the final status of the task.                  *)
FinalPoll(job) == job.after + 1

(* C12: the call resolves on the first poll that sees COMPLETED, with the  *)
(* policy id of result.policyReference when the task carries one and with  *)
(* the response body otherwise; it rejects on the first poll that sees     *)
(* FAILURE, with an error that carries the body; after either nothing is   *)
(* pending and no further poll goes out.                                   *)
C12_SettlesOnFirstFinal ==
    /\ poller.job.final \in {FINISHED, FAILURE} => poller.polls <= FinalPoll(poller.job)
    /\ poller.state = "resolved" =>
          /\ poller.job.final = FINISHED
          /\ poller.pollsAtSettle = FinalPoll(poller.job)
          /\ poller.value = IF poller.job.ref = "none"
                               THEN ResponseBody(poller.job, FinalPoll(poller.job))
                               ELSE << "A" >>
    /\ poller.kind = "failure" =>
          /\ poller.state = "rejected"
          /\ poller.job.final = FAILURE
          /\ poller.pollsAtSettle = FinalPoll(poller.job)
          /\ MessageOf(poller.value)
               = << << "Task failed returning ", ResponseBody(poller.job, FinalPoll(poller.job)) >> >>
    /\ poller.state = "resolved" \/ poller.kind = "failure" =>
          poller.next = "none" /\ poller.polls = poller.pollsAtSettle

(* A task that finishes after a STARTED poll, resolved with the id cut out *)
(* of a link with a query string.                                          *)
C12_Witness ==
    /\ poller.state = "resolved"
    /\ poller.job.after >= 1
    /\ poller.job.ref = "query"
    /\ poller.value = << "A" >>
    /\ clock > poller.start

----------------------------------------------------------------------------
(* The file cache                                                          *)

C14_ExportIffNotStaged ==
    \A r \in Reqs :
        /\ req[r].staged = "no" => req[r].nExport = 1
        /\ req[r].staged = "yes" =>
              /\ req[r].nExport = 0
              /\ req[r].pc \notin {"exportJob", "download", "exportWait"}
              /\ req[r].out["export"] = Outcome(r, "resolved", << "true" >>)
        /\ req[r].nExport >= 1 \/ req[r].pc \in {"exportJob", "download"}
              => req[r].staged = "no"

(* Two owners that both found no file, exported and downloaded it: the     *)
(* file of the first was evicted before the second asked.                  *)
C14_Witness ==
    \E r, q \in Reqs :
        /\ r # q
        /\ PolicyFile(req[r]) = PolicyFile(req[q])
        /\ PolicyFile(req[r]) \in DOMAIN cache.seen
        /\ \A x \in {r, q} :
              /\ req[x].staged = "no"
              /\ req[x].nExport = 1
              /\ req[x].out["export"] = Outcome(x, "resolved", << "true" >>)

----------------------------------------------------------------------------
(* The POST and its validation                                             *)

(* The version the trusted devices report for a device named in a POST:    *)
(* none for the local device and for a name no device has.                 *)
VersionOf(name, devices) ==
    IF \E i \in DOMAIN devices : name \in {devices[i].targetHost, devices[i].targetUUID}
    THEN devices[CHOOSE i \in DOMAIN devices :
                     name \in {devices[i].targetHost, devices[i].targetUUID}].targetVersion
    ELSE Null

Trusted(name) == name \in {Source.targetHost, UuidOf(TargetA), UuidOf(TargetB)}

(* Both versions known and of one major version: the digits before the dot *)
SameMajor(v, w) == v # Null /\ w # Null /\ SubSeq(v, 1, 2) = SubSeq(w, 1, 2)

(* No stage of the pipeline was started for the request and the registry   *)
(* holds nothing.                                                          *)
NothingStarted(r) ==
    /\ requestedTasks = << >>
    /\ req[r].hist = << >>
    /\ req[r].nExport = 0 /\ req[r].nUpload = 0 /\ req[r].nImport = 0
    /\ req[r].nApply = 0 /\ req[r].nRemove = 0
    /\ files = EmptyMap /\ inFlightDownloads = EmptyMap /\ inFlightExports = EmptyMap

Posted(r) == req[r].pc # "idle"

(* C15: a node-to-node POST between devices that are not both known to be  *)
(* of one major version is answered with the version error and with        *)
(* nothing else: no registry entry, no EXPORTING, no export, upload,       *)
(* import or apply.                                                        *)
C15_IncompatibleRefused ==
    \A r \in Reqs :
        LET p == req[r].post IN
        (/\ Posted(r) /\ req[r].mode = "node"
         /\ p.body.sourceDevice # Untrusted /\ p.body.targetDevice # Untrusted
         /\ ~ SameMajor(VersionOf(p.body.sourceDevice, p.devices),
                        VersionOf(p.body.targetDevice, p.devices)))
        => /\ req[r].pc = "refused"
           /\ req[r].answered = << 400 >>
           /\ MessageOf(req[r].err) = << "is not compatible with ASM on" >>
           /\ NothingStarted(r)

(* A POST from a 13.x source to a 14.x target, refused.                    *)
C15_Witness ==
    \E r \in Reqs :
        /\ req[r].pc = "refused" /\ req[r].mode = "node"
        /\ VersionOf(req[r].post.body.sourceDevice, req[r].post.devices) = V130
        /\ VersionOf(req[r].post.body.targetDevice, req[r].post.devices) = V14
        /\ MessageOf(req[r].err) = << "is not compatible with ASM on" >>

(* C16: a POST with a validation or resolution error (a url without        *)
(* targetPolicyName, a url without a target, a source or target that is no *)
(* trusted device) is answered with the error only, and no registry entry  *)
(* and no stage of the pipeline is made for it.                            *)
C16_InvalidPostStartsNothing ==
    \A r \in Reqs :
        LET body == req[r].post.body IN
        (/\ Posted(r)
         /\ \/ req[r].mode = "url" /\ body.targetPolicyName = Null
            \/ req[r].mode = "url" /\ body.targetDevice = Null
            \/ req[r].mode = "url" /\ body.targetDevice = Untrusted
            \/ req[r].mode = "node" /\ Untrusted \in {body.sourceDevice, body.targetDevice})
        => /\ req[r].pc = "refused"
           /\ req[r].answered \in {<< 400 >>, << 404 >>}
           /\ NothingStarted(r)

(* C17: a node-to-node POST for a policy the source does not hold is       *)
(* answered with an error, and no target query, export, upload, import or  *)
(* apply is made for it.                                                   *)
C17_NotFoundAnsweredWithError ==
    \A r \in Reqs :
        (/\ Posted(r) /\ req[r].mode = "node" /\ req[r].pc # "refused"
         /\ \A i \in DOMAIN SourcePolicies :
               /\ SourcePolicies[i].name # req[r].post.body.policyName
               /\ SourcePolicies[i].id # req[r].post.body.policyId)
        => /\ 202 \notin Range(req[r].answered)
           /\ req[r].hist \in {<< >>, << ERROR >>}
           /\ req[r].nExport = 0 /\ req[r].nUpload = 0 /\ req[r].nImport = 0
           /\ req[r].nApply = 0 /\ req[r].nRemove = 0

(* C18: a POST that names no target, and is valid otherwise, is accepted   *)
(* for the local device and is not turned down for the version of that     *)
(* device.                                                                 *)
C18_LocalTargetAccepted ==
    \A r \in Reqs :
        LET body == req[r].post.body IN
        (/\ Posted(r) /\ body.targetDevice = Null
         /\ \/ /\ req[r].mode = "node"
               /\ Trusted(body.sourceDevice)
               /\ VersionOf(body.sourceDevice, req[r].post.devices) # Null
            \/ /\ req[r].mode = "url"
               /\ body.targetPolicyName # Null
               /\ protocol(body.url) \in VALIDDOWNLOADPROTOCOLS)
        => /\ req[r].answered = << 202 >>
           /\ req[r].target = LocalDevice
           /\ req[r].pc = "failed" =>
                 MessageOf(req[r].err) # << "policy XML file TMOS version is not compatible" >>

(* The registry entry of the request of a url import, if there is one.     *)
EntryState(r) ==
    IF hasOwnProperty(requestedTasks, req[r].requestIndex)
    THEN heap[OidOf(requestedTasks, req[r].requestIndex)].state ELSE "none"

(* C19: a url import of a url whose scheme is not file:, http: or https:   *)
(* downloads nothing, stages no file, makes no upload, import or apply,    *)
(* and ends with its registry entry in ERROR.                              *)
C19_InvalidSchemeEndsInError ==
    \A r \in Reqs :
        (/\ Posted(r) /\ req[r].mode = "url" /\ req[r].pc # "refused"
         /\ req[r].sourceUrl[1] \notin {"file:", "http:", "https:"})
        => /\ req[r].pc \in {"catch", "failed"}
           /\ req[r].out["download"] = NoOutcome
           /\ files = EmptyMap /\ inFlightDownloads = EmptyMap
           /\ req[r].nUpload = 0 /\ req[r].nImport = 0 /\ req[r].nApply = 0
           /\ req[r].nRemove = 0
           /\ req[r].pc = "failed" =>
                 /\ EntryState(r) = ERROR
                 /\ req[r].hist = << REQUESTED, EXPORTING, ERROR >>

(* A url import of an ftp: url to a trusted target, ended in ERROR.        *)
C19_Witness ==
    \E r \in Reqs :
        /\ req[r].mode = "url" /\ req[r].pc = "failed"
        /\ req[r].sourceUrl = UrlFtp
        /\ req[r].target = TargetA
        /\ EntryState(r) = ERROR

----------------------------------------------------------------------------
(* The in-flight maps                                                      *)

(* A request at one of the stages is the owner working on the key.         *)
OwnedBy(key, stages, mode, Index(_)) ==
    \E r \in Reqs : /\ req[r].mode = mode
                     /\ req[r].pc \in stages
                     /\ Index(req[r]) = key

(* C20: each of inFlightExports, inFlightDownloads, inFlightUploads and    *)
(* inFlightImports holds a key only while an owner is working on it: once  *)
(* the promise of the owner has settled, the entry is gone.  (An owner     *)
(* whose promise can no longer settle counts as still working.)            *)
C20_EntryOnlyWhileOwned ==
    /\ \A key \in DOMAIN inFlightExports :
          OwnedBy(key, {"exportJob", "download"}, "node", ExportIndex)
    /\ \A key \in DOMAIN inFlightDownloads :
          \/ OwnedBy(key, {"download"}, "node", DownloadIndex)
          \/ OwnedBy(key, {"urlDownload", "threw"}, "url", UrlDownloadIndex)
    /\ \A key \in inFlightUploads :
          \/ OwnedBy(key, {"upload", "uploadThrew"}, "node", UploadIndex)
          \/ OwnedBy(key, {"upload", "uploadThrew"}, "url", UploadIndex)
    /\ \A key \in DOMAIN inFlightImports :
          \/ OwnedBy(key, {"upload", "uploadThrew", "uploadPoll", "importJob", "applyJob"},
                     "node", ImportIndex)
          \/ OwnedBy(key, {"upload", "uploadThrew", "uploadPoll", "importJob", "applyJob"},
                     "url", ImportIndex)

(* The owner r of an import whose upload threw in its executor, after the  *)
(* catch of importPolicyToBigIP ran.                                       *)
ThrewAtUpload(r) == req[r].out["import"] = Outcome(r, "rejected", Err("ENOENT"))

(* Another request is the owner working on the key.                        *)
OwnedByOther(r, key, stages, Index(_)) ==
    \E q \in Reqs \ {r} : req[q].pc \in stages /\ Index(req[q]) = key

(* C21: when the work of an owner throws synchronously right after the     *)
(* in-flight entry was made (the upload owner stats a staged file that is  *)
(* gone), the entries of the key are removed all the same and nobody is    *)
(* left waiting on the key: every caller that had joined got the error.    *)
C21_ThrowCleansUp ==
    \A r \in Reqs :
        ThrewAtUpload(r)
        => /\ UploadIndex(req[r]) \in inFlightUploads
                 => OwnedByOther(r, UploadIndex(req[r]), {"upload", "uploadThrew"}, UploadIndex)
           /\ \/ ImportIndex(req[r]) \notin DOMAIN inFlightImports
              \/ OwnedByOther(r, ImportIndex(req[r]),
                              {"upload", "uploadThrew", "uploadPoll", "importJob", "applyJob"},
                              ImportIndex)
           /\ \A q \in Reqs :
                 (req[q].pc = "importWait" /\ ImportIndex(req[q]) = ImportIndex(req[r]))
                 => ImportIndex(req[r]) \in DOMAIN inFlightImports

----------------------------------------------------------------------------
(* The registry entry of an import whose policy gets another id            *)

KeyOf(r, policyId) == IndexOf(req[r].target.targetHost, req[r].target.targetPort, policyId)

(* The step in which the import task of the owner r ended, the device      *)
(* having given the policy an id other than the one the call was made      *)
(* with.                                                                   *)
ReKeyed(r) ==
    /\ req[r].pc = "importJob"
    /\ req[r].resp = "ok"
    /\ req[r].respId # req[r].importPolicyId
    /\ req'[r].pc # "importJob"

(* The step in which the apply task of such an owner ended with success.   *)
AppliedReKeyed(r) ==
    /\ req[r].pc = "applyJob"
    /\ req'[r].pc = "applied"
    /\ req[r].importPolicyId # req[r].sourcePolicyId

(* C22: when the import job returns a policy id other than the id the      *)
(* request is keyed under, the registry entry is moved: after the step the *)
(* registry holds an entry under target:newId with its id newId, holds     *)
(* nothing under target:oldId, APPLYING is written to the entry of the new *)
(* key, and the removal on success removes the new key and leaves every    *)
(* other key alone.                                                        *)
C22_EntryMoved ==
    [][\A r \in Reqs :
         /\ ReKeyed(r) =>
               LET oldKey == KeyOf(r, req[r].importPolicyId)
                   newKey == KeyOf(r, req[r].respId)
               IN  /\ hasOwnProperty(requestedTasks', newKey)
                   /\ ~ hasOwnProperty(requestedTasks', oldKey)
                   /\ heap'[OidOf(requestedTasks', newKey)].id = req[r].respId
                   /\ heap'[OidOf(requestedTasks', newKey)].state = APPLYING
                   /\ req'[r].pc = "applyJob"
         /\ AppliedReKeyed(r) =>
               LET newKey == KeyOf(r, req[r].importPolicyId)
               IN  Keys(requestedTasks') = Keys(requestedTasks) \ {newKey}
      ]_vars

(* The state of the registry entry under `key`, if there is one.           *)
StateAt(key) ==
    IF hasOwnProperty(requestedTasks, key) THEN heap[OidOf(requestedTasks, key)].state
    ELSE "none"

(* The only submission made is r, a url import whose entry was moved to    *)
(* the id the target gave the policy and whose apply task then failed; the *)
(* catch of onPost has run.                                                *)
ApplyFailedReKeyed(r) ==
    /\ req[r].mode = "url" /\ req[r].pc = "failed"
    /\ req[r].nApply = 1
    /\ req[r].importPolicyId # req[r].sourcePolicyId
    /\ req[r].out["import"] = Outcome(r, "rejected", Err("Task failed"))
    /\ \A q \in Reqs \ {r} : req[q].pc = "idle"

(* C23: when the apply job fails after the registry entry was moved to the *)
(* id the target assigned, the registry afterwards holds exactly one entry *)
(* for the request, in state ERROR, and no entry in APPLYING.              *)
C23_ApplyFailureLeavesOneError ==
    \A r \in Reqs :
        ApplyFailedReKeyed(r)
        => /\ Len(requestedTasks) = 1
           /\ heap[requestedTasks[1].oid].state = ERROR
           /\ StateAt(KeyOf(r, req[r].importPolicyId)) # APPLYING

----------------------------------------------------------------------------
(* The order of the stages                                                 *)

(* C24: within one replication the stale policy of the same name is        *)
(* deleted on the target (REMOVING) only after the export and the download *)
(* of the new version have completed, so a replication whose export failed *)
(* leaves the target with the policy it had.                               *)
C24_RemoveAfterExport ==
    \A r \in Reqs :
        req[r].mode = "node"
        => /\ req[r].nRemove > 0 => req[r].out["export"].kind = "resolved"
           /\ (/\ req[r].pc = "failed"
               /\ req[r].out["export"].kind = "rejected"
               /\ req[r].held = "stale"
               /\ \A q \in Reqs \ {r} : req[q].pc = "idle")
              => HoldsName(dev[req[r].target], req[r].targetPolicyName)

----------------------------------------------------------------------------
(* Terminal states                                                         *)

(* The state of the entry under `key` in the registry (tasks, h).          *)
StateIn(tasks, h, key) ==
    IF hasOwnProperty(tasks, key) THEN h[OidOf(tasks, key)].state ELSE "none"

(* C25: a registry entry in state ERROR makes no further transition: in    *)
(* every step it stays in ERROR under its key, a new POST for the key      *)
(* included, unless the step is one of a DELETE.                           *)
C25_ErrorIsTerminal ==
    [][\A key \in Keys(requestedTasks) :
         StateIn(requestedTasks, heap, key) = ERROR
         => \/ StateIn(requestedTasks', heap', key) = ERROR
            \/ del' # del
      ]_vars

----------------------------------------------------------------------------
(* Staged files that are still being written                               *)

(* Another request's write stream is open on the file.                     *)
BeingWritten(fs, name, r) ==
    /\ existsSync(fs, name)
    /\ fs[name].state = "partial"
    /\ fs[name].writer # r
    /\ req[fs[name].writer].pc = "download"

(* The owner of an export skips the export: "is already downloaded".       *)
SkipsExport(r) ==
    /\ req[r].pc = "export"
    /\ req'[r].pc = "import"
    /\ req'[r].out["export"] = Outcome(r, "resolved", << "true" >>)

(* The owner of an import starts the upload of the staged file.            *)
StartsUpload(r) == req[r].pc = "import" /\ req'[r].pc = "upload"

(* C26: no request skips its export for a staged file, or starts to upload *)
(* the staged file, while another request is still writing that file;      *)
(* requests of different source devices included.                          *)
C26_NoUseOfPartialFile ==
    [][\A r \in Reqs :
          (SkipsExport(r) \/ StartsUpload(r)) =>
              ~ BeingWritten(files, PolicyFile(req[r]), r)]_vars

----------------------------------------------------------------------------
(* The chunks of an upload                                                 *)

(* The target answered the chunk without an error status.                  *)
Succeeded(answer) == answer.status > 0 /\ answer.status <= 399

EveryChunkSucceeded == \A i \in DOMAIN upload.answers : Succeeded(upload.answers[i])

SomeChunkFailed == \E i \in DOMAIN upload.answers : ~ Succeeded(upload.answers[i])

BytesOf(chunk) == chunk.start .. chunk.end

(* C27: for a file of S >= 1 bytes whose chunks all succeed, the ranges    *)
(* sent start at 0, each starts one byte after the end of the one before,  *)
(* none is empty or longer than the chunk size or reaches beyond S - 1,    *)
(* each carries Content-Range start-end/S, and when the upload has         *)
(* resolved they cover exactly the bytes 0 .. S - 1.                       *)
C27_ChunkRanges ==
    (upload.size >= 1 /\ EveryChunkSucceeded) =>
        LET sent == upload.sent
            S == upload.size
        IN  /\ sent # << >> => sent[1].start = 0
            /\ \A i \in DOMAIN sent :
                  /\ sent[i].start <= sent[i].end
                  /\ Cardinality(BytesOf(sent[i])) <= upload.CHUNK_SIZE
                  /\ sent[i].end <= S - 1
                  /\ sent[i].range = ContentRange(sent[i].start, sent[i].end, S)
                  /\ i > 1 => sent[i].start = sent[i - 1].end + 1
                  /\ \A k \in DOMAIN sent : k # i => BytesOf(sent[i]) \cap BytesOf(sent[k]) = {}
            /\ upload.state = "resolved" =>
                  UNION { BytesOf(sent[i]) : i \in DOMAIN sent } = 0 .. (S - 1)

(* An upload in three chunks, the last one shorter than the others, has    *)
(* resolved.                                                               *)
C27_Witness ==
    /\ upload.state = "resolved"
    /\ EveryChunkSucceeded
    /\ Len(upload.sent) = 3
    /\ upload.size % upload.CHUNK_SIZE # 0

(* C28: the upload has resolved only when the last answer is that of the   *)
(* chunk that ends at byte S - 1, that answer is no error, and no chunk    *)
(* before it failed.                                                       *)
C28_ResolvesAfterLastChunk ==
    upload.state = "resolved" =>
        /\ upload.answers # << >>
        /\ upload.answers[Len(upload.answers)].end = upload.size - 1
        /\ Len(upload.answers) = Len(upload.sent)
        /\ EveryChunkSucceeded

(* An upload in two chunks has resolved, and one whose last chunk was      *)
(* answered with an error has not.                                         *)
C28_Witness ==
    /\ upload.pc = "stopped"
    /\ Len(upload.answers) = 2
    /\ upload.answers[2].end = upload.size - 1
    /\ \/ upload.state = "resolved"
       \/ upload.answers[2].status > 399 /\ upload.state = "rejected"

(* C29: once a chunk was answered with an error status or its request     *)
(* errored, the upload has failed and no further chunk is sent.            *)
C29_FailureStopsUpload ==
    [][SomeChunkFailed => (upload.state = "rejected" /\ upload'.sent = upload.sent)]_vars

----------------------------------------------------------------------------
(* A download that fails                                                   *)

(* The download that request r owns ends in this step.                     *)
DownloadEnds(r) == req[r].pc \in {"download", "urlDownload"} /\ req'[r].pc # req[r].pc

(* ... with the file received: the owner of an export resolves with true,  *)
(* the owner of a URL download with the name of the file.                  *)
DownloadSucceeds(r) ==
    \/ req'[r].out["export"] = Outcome(r, "resolved", << "true" >>)
    \/ req'[r].out["download"] = Outcome(r, "resolved", PolicyFile(req[r]))

(* C30: when the download a request owns ends without the file received,   *)
(* no file of the request's policy id and timestamp remains and the        *)
(* owner's promise (of the export that downloads, or of the URL download)  *)
(* has rejected.                                                           *)
C30_FailedDownloadCleansUp ==
    [][\A r \in Reqs :
          (DownloadEnds(r) /\ ~ DownloadSucceeds(r)) =>
              /\ ~ existsSync(files', PolicyFile(req[r]))
              /\ \/ req'[r].out["export"].kind = "rejected"
                 \/ req'[r].out["download"].kind = "rejected"]_vars

----------------------------------------------------------------------------
(* A sweep in which a file cannot be deleted                               *)

(* The staged files that had expired when the sweep read the directory and *)
(* that are still there, unchanged.                                        *)
LeftExpired ==
    { f \in DOMAIN cache.dir :
        /\ startsWith(f, POLICYFILEPREFIX)
        /\ cache.dir[f] < cache.sweptAt
        /\ Expired(cache.sweptAt, cache.dir[f]) }

(* The stat callback of the file ran and could not delete it.              *)
DeleteFailed(f) ==
    /\ f \in DOMAIN cache.seen
    /\ ~ cache.seen[f].deleted
    /\ cache.seen[f].age > POLICYCACHETIME - 100

(* C31: when no stat callback of a sweep is out any more, every staged     *)
(* file that had expired when the sweep began is deleted, but for the      *)
(* files whose own deletion failed.                                        *)
C31_SweepGoesOn ==
    (cache.sweptAt > 0 /\ cache.pending = {}) =>
        \A f \in LeftExpired : DeleteFailed(f)

----------------------------------------------------------------------------
(* The registry entry of a request in flight                               *)

(* The registry holds an entry for the request: under the key of the       *)
(* policy id it was submitted with, or of the id its import was given.     *)
HasEntry(r) ==
    \/ hasOwnProperty(requestedTasks, KeyOf(r, req[r].sourcePolicyId))
    \/ hasOwnProperty(requestedTasks, KeyOf(r, req[r].importPolicyId))

(* C32: whenever the event loop is between two callbacks, every submission *)
(* that was accepted and has neither succeeded nor failed has an entry in  *)
(* the registry.                                                           *)
C32_InFlightIsTracked ==
    micro = << >> => \A r \in InFlight(req) : HasEntry(r)

----------------------------------------------------------------------------
(* The order of the states of a registry entry                             *)

StateOrder == << REQUESTED, QUERYING, REMOVING, EXPORTING, UPLOADING, IMPORTING, APPLYING >>

Ordered(state) == \E i \in DOMAIN StateOrder : StateOrder[i] = state

Rank(state) == CHOOSE i \in DOMAIN StateOrder : StateOrder[i] = state

(* C33: while a key stays in the registry, the state under it never moves  *)
(* to a state that comes earlier in the order REQUESTED, QUERYING,         *)
(* REMOVING, EXPORTING, UPLOADING, IMPORTING, APPLYING.                    *)
C33_StateNeverMovesBack ==
    [][\A key \in Keys(requestedTasks) \cap Keys(requestedTasks') :
          LET before == StateIn(requestedTasks, heap, key)
              after  == StateIn(requestedTasks', heap', key)
          IN  (Ordered(before) /\ Ordered(after)) => Rank(before) <= Rank(after)]_vars

----------------------------------------------------------------------------
(* Waiting for an upload in flight                                         *)

(* C34: a replication that waits for an upload of its key, an upload that  *)
(* failed on a missing file included, leaves the wait in the end: its      *)
(* upload resolves or rejects.                                             *)
C34_UploadWaitEnds ==
    \A r \in Reqs : (req[r].pc = "uploadPoll") ~> (req[r].pc # "uploadPoll")

----------------------------------------------------------------------------
(* A status response without a status                                      *)

(* A status query of the call got no response.                             *)
QueryUnanswered ==
    /\ poller.unanswered
    /\ IF poller.last = Null THEN TRUE ELSE poller.last.hasStatus

(* C35: a pollTaskUntilFinished call whose status queries are all answered *)
(* settles in the end, whatever the responses are.                         *)
C35_PollSettles ==
    (poller.state = "pending") ~> (poller.state # "pending" \/ QueryUnanswered)

----------------------------------------------------------------------------
(* The sweep and the files in use                                          *)

(* The sweep deletes the file in this step: a pipeline unlinks only the    *)
(* file of its own failed download, which is a partial one.                *)
Swept(file) ==
    /\ existsSync(files, file)
    /\ files[file].state # "partial"
    /\ ~ existsSync(files', file)

(* The request has found or downloaded the file and its upload has not     *)
(* ended.                                                                  *)
Uses(r, file) ==
    /\ req[r].pc \in {"import", "upload"}
    /\ PolicyFile(req[r]) = file

(* C36: the sweep never deletes a staged file that a replication in flight *)
(* has found or created and has not yet finished to upload.                *)
C36_SweepSparesFilesInUse ==
    [][\A file \in DOMAIN files : Swept(file) => ~ \E r \in Reqs : Uses(r, file)]_vars

----------------------------------------------------------------------------
(* The answers to a REST operation                                         *)

(* C37: a REST operation is answered at most once, be it by fail or by     *)
(* completeRestOperation: a POST has at most one answer and so has a       *)
(* DELETE.                                                                 *)
C37_AnsweredAtMostOnce ==
    /\ del.completed <= 1
    /\ \A r \in Reqs : Len(req[r].answered) <= 1

----------------------------------------------------------------------------
(* The DELETE of a policy that is nowhere                                  *)

(* The DELETE was decided on an answer of the target, and its policy was   *)
(* neither tracked for the target, when it was called and when it was      *)
(* decided, nor held by the target.                                        *)
NowhereFound ==
    /\ del.pc = "done"
    /\ del.status # 500
    /\ del.called = {}
    /\ del.tracked = {}
    /\ ~ del.live

(* C38: a DELETE of a policy that is neither tracked for the target nor    *)
(* held by it is answered with the not-found error 404.                    *)
C38_DeleteOfNothingIsNotFound ==
    NowhereFound => del.status = 404

----------------------------------------------------------------------------
(* The entries a submission creates                                        *)

(* The submissions that were accepted.                                     *)
Accepted == { r \in Reqs : req[r].pc \notin {"idle", "refused"} }

(* No pipeline is in flight.                                               *)
AllSettled == InFlight(req) = {}

(* C39: the node-to-node submissions accepted so far have created no more  *)
(* than one registry entry each, and once every pipeline has ended no      *)
(* entry is left in state REQUESTED.                                       *)
C39_OneEntryPerSubmission ==
    /\ Len(requestedTasks) <= Cardinality(Accepted)
    /\ AllSettled => \A key \in Keys(requestedTasks) : StateAt(key) # REQUESTED

----------------------------------------------------------------------------
(* The remote delete and the imports in flight                             *)

(* The request issues the remote delete of REMOVING in this step.          *)
IssuesRemove(r) == req'[r].nRemove > req[r].nRemove

(* The request owns an upload, an import task or an apply task.            *)
Importing(q) == req[q].pc \in {"upload", "uploadPoll", "importJob", "applyJob"}

(* C40: a submission issues the remote delete of the same-named policy on  *)
(* the target only while no other submission has an upload, an import or   *)
(* an apply in flight for the same target and policy.                      *)
C40_NoRemoveDuringImport ==
    [][\A r \in Reqs :
          IssuesRemove(r) =>
              ~ \E q \in Reqs \ {r} :
                    /\ Importing(q)
                    /\ ImportIndex(req[q]) = ImportIndex(req[r])]_vars

====
